---- MODULE Spec2Model ----
(***************************************************************************)
(* hraftd: a key-value store replicated with Raft.                         *)
(*                                                                         *)
(* The module models store.go (the Store facade, the fsm adapter and the   *)
(* snapshot handle), the JSON codec it uses for log records and snapshots, *)
(* and the Raft engine the Store drives.  Three specifications share the   *)
(* operators translated from store.go:                                     *)
(*   Spec      a cluster of nodes: Open, Join, Set, Delete, elections,     *)
(*             replication, commit, apply, snapshot, crash and restart;    *)
(*   SpecFsm   one fsm on its own: commands through the codec, Snapshot,   *)
(*             Persist and Restore, over strings that include bytes which  *)
(*             are not valid UTF-8;                                        *)
(*   SpecOpen  Store.Open over every content peers.json can have.          *)
(* Further specifications drive single handlers from the same operators.   *)
(***************************************************************************)
EXTENDS Integers, Sequences, FiniteSets, TLC

VARIABLES
    \* SpecFsm: one fsm with its snapshot handle and sink
    fm,         \* the map f.m
    fcmd,       \* the command the last Set/Delete built
    fdec,       \* the command fsm.Apply decoded from that call's record
    fsrc,       \* the map as it was when Snapshot cloned it
    fsnap,      \* the fsmSnapshot handle: whether one is held, and its store
    fsink,      \* the sink Persist wrote to
    frestored,  \* Restore has replaced the map and nothing was applied since
    frepeat,    \* the last command applied was applied right after itself
    fops        \* commands applied so far

fsmVars == <<fm, fcmd, fdec, fsrc, fsnap, fsink, frestored, frepeat, fops>>

VARIABLES
    \* SpecOpen: one Store and the peers.json of its RaftDir
    ofile,      \* content of <RaftDir>/peers.json
    ostore,     \* s.raft: whether set, and the EnableSingleNode it was given;
                \* again: how the last Open called on the open Store ended
    olast,      \* the last Open call: its argument, config and result
    oopens      \* Open calls made so far

openVars == <<ofile, ostore, olast, oopens>>

VARIABLES
    \* Spec: the cluster.  Per node, on disk:
    peersFile,    \* the peers listed in <RaftDir>/peers.json
    currentTerm,  \* Raft's current term (stable store)
    log,          \* the log entries kept (log store), after logBase
    logBase,      \* index of the last entry dropped by log compaction
    snap,         \* the newest snapshot of the snapshot store
    \* Per node, in the running process:
    opened,       \* Open has returned nil and the process is running
    enableSingleNode, \* config.EnableSingleNode as Open set it
    raftState,    \* s.raft.State()
    commitIndex,
    lastApplied,
    m,            \* the map s.m
    \* The client call in progress or last returned
    call,
    \* History
    committed,    \* the entries the cluster has committed, by index
    applied,      \* per node, the records its map reflects, in order
    votes,        \* per node, the votes that made it leader last
    enableSingleArg, \* per node, the enableSingle its running process passed to Open
    crashes,      \* crashes so far
    snapshots     \* snapshots taken so far

diskVars == <<peersFile, currentTerm, log, logBase, snap>>
procVars == <<opened, enableSingleNode, raftState, commitIndex, lastApplied, m>>
histVars == <<committed, applied, votes, enableSingleArg, crashes, snapshots>>
clusterVars == <<diskVars, procVars, call, histVars>>

VARIABLES
    \* SpecApply: the FSM goroutine of one node fed arbitrary records
    alog,       \* the data of the committed command entries, in index order
    anext,      \* position in alog of the next entry to hand to fsm.Apply
    am,         \* the map f.m
    ahalted     \* fsm.Apply panicked: the process is gone

applyVars == <<alog, anext, am, ahalted>>

VARIABLES
    \* SpecMutex: the goroutines of one node that share the map
    xm,         \* the map s.m (f.m)
    xmu,        \* who holds s.mu: "none", "fsm" or "get"
    xfsm,       \* Raft's FSM goroutine: where it is in Apply, Snapshot or Restore
    xget,       \* an HTTP handler in Store.Get
    xsnap,      \* the fsmSnapshot handle and the goroutine that persists it
    xserving,   \* Open has returned and the HTTP service was started
    xops        \* calls begun so far

mutexVars == <<xm, xmu, xfsm, xget, xsnap, xserving, xops>>

VARIABLES
    \* SpecMain: the command line of each node's process
    joinAddr,   \* per node, the value of -join once main has parsed its flags
    req         \* the HTTP request a node's Service is serving

mainVars == <<joinAddr, req>>

VARIABLES
    stopped     \* SpecSingle: per node, what its last process held when stopped

readVars == <<stopped>>

(***************************************************************************)
(* Go strings.  A string is a sequence of atoms.  "a", "b" are ASCII       *)
(* letters, "q" is the double quote (which JSON must escape), "xFF" is a   *)
(* byte that is not valid UTF-8 and "uFFFD" is the replacement rune        *)
(* U+FFFD.  The words "set", "delete", "op", "key" and "value" are atoms   *)
(* of their own.                                                           *)
(***************************************************************************)
EmptyString == <<>>

\* Byte order of the atoms (Go sorts map keys bytewise when it marshals).
CharRank(c) ==
    CASE c = "q" -> 1
      [] c = "a" -> 2
      [] c = "b" -> 3
      [] c = "uFFFD" -> 4
      [] c = "xFF" -> 5
      [] OTHER -> 6

RECURSIVE LessStr(_, _)
LessStr(s, t) ==
    IF t = <<>> THEN FALSE
    ELSE IF s = <<>> THEN TRUE
    ELSE IF CharRank(Head(s)) # CharRank(Head(t))
         THEN CharRank(Head(s)) < CharRank(Head(t))
         ELSE LessStr(Tail(s), Tail(t))

(***************************************************************************)
(* encoding/json.  A JSON text is modelled by its parse: an object is the  *)
(* sequence of its members in the order they are written, each a name and  *)
(* a value that are JSON string literals; kind "garbage" stands for bytes  *)
(* that are no JSON value.  A literal is a sequence of literal atoms: an   *)
(* escape ("\\q", "\\ufffd") or a character written as itself.             *)
(***************************************************************************)

\* json.Marshal writes a string: the quote is escaped, and a byte that is not
\* valid UTF-8 is written as the escape of U+FFFD.
EncChar(c) ==
    CASE c = "q" -> "\\q"
      [] c = "xFF" -> "\\ufffd"
      [] OTHER -> c

EncodeString(s) == [i \in 1..Len(s) |-> EncChar(s[i])]

\* json.Unmarshal reads a literal: escapes are undone, and an invalid byte
\* written raw in the text is replaced by U+FFFD.
DecChar(c) ==
    CASE c = "\\q" -> "q"
      [] c = "\\ufffd" -> "uFFFD"
      [] c = "xFF" -> "uFFFD"
      [] OTHER -> c

DecodeString(l) == [i \in 1..Len(l) |-> DecChar(l[i])]

JSONObject(members) == [kind |-> "object", members |-> members]
NoData == [kind |-> "none", members |-> <<>>]
Garbage == [kind |-> "garbage", members |-> <<>>]

\* A struct field tagged omitempty: left out when the string is empty.
OmitEmptyMember(name, s) ==
    IF s = EmptyString THEN <<>>
    ELSE <<[name |-> <<name>>, val |-> EncodeString(s)]>>

\* type command struct { Op, Key, Value string }, all three omitempty.
Command(op, key, value) == [Op |-> op, Key |-> key, Value |-> value]

\* json.Marshal(c) for a command; it cannot fail for a struct of strings.
MarshalCommand(c) ==
    JSONObject(OmitEmptyMember("op", c.Op) \o OmitEmptyMember("key", c.Key)
               \o OmitEmptyMember("value", c.Value))

\* The value a struct field gets: that of the last member bearing its name,
\* the zero value (the empty string) when there is none.
RECURSIVE FieldOf(_, _)
FieldOf(members, name) ==
    IF members = <<>> THEN EmptyString
    ELSE LET last == members[Len(members)]
         IN  IF last.name = <<name>> THEN DecodeString(last.val)
             ELSE FieldOf(SubSeq(members, 1, Len(members) - 1), name)

\* json.Unmarshal(l.Data, &c): unknown members are ignored, and the JSON
\* value null leaves c as it was (the zero command).
UnmarshalCommand(b) ==
    IF b.kind = "null"
    THEN [err |-> FALSE, c |-> Command(EmptyString, EmptyString, EmptyString)]
    ELSE IF b.kind # "object"
    THEN [err |-> TRUE, c |-> Command(EmptyString, EmptyString, EmptyString)]
    ELSE [err |-> FALSE,
          c |-> Command(FieldOf(b.members, "op"), FieldOf(b.members, "key"),
                        FieldOf(b.members, "value"))]

(***************************************************************************)
(* The map m of the Store: a function from the keys present to values.     *)
(***************************************************************************)
EmptyMap == [k \in {} |-> EmptyString]

\* New(): m = make(map[string]string)
New == EmptyMap

GetNoDefault(mm, key) == IF key \in DOMAIN mm THEN mm[key] ELSE <<"absent">>

\* Store.Get: s.m[key], the empty string for an absent key; the error is nil.
Get(mm, key) == IF key \in DOMAIN mm THEN mm[key] ELSE EmptyString

applySetAppend(mm, key, value) ==
    [x \in DOMAIN mm \cup {key} |->
        IF x # key THEN mm[x]
        ELSE IF key \in DOMAIN mm THEN mm[key] \o value ELSE value]

\* fsm.applySet: f.m[key] = value
applySet(mm, key, value) ==
    [x \in DOMAIN mm \cup {key} |-> IF x = key THEN value ELSE mm[x]]

applyDeleteAll(mm, key) == EmptyMap

applyDeleteKeep(mm, key) == mm

\* fsm.applyDelete: delete(f.m, key)
applyDelete(mm, key) == [x \in DOMAIN mm \ {key} |-> mm[x]]

fsmApplyIgnoreBad(mm, data) ==
    LET u == UnmarshalCommand(data)
    IN  IF ~u.err /\ u.c.Op = <<"set">>
        THEN [panic |-> FALSE, m |-> applySet(mm, u.c.Key, u.c.Value)]
        ELSE IF ~u.err /\ u.c.Op = <<"delete">>
        THEN [panic |-> FALSE, m |-> applyDelete(mm, u.c.Key)]
        ELSE [panic |-> FALSE, m |-> mm]

\* fsm.Apply: decode the record and dispatch on its op; a record that does
\* not decode, or whose op is neither "set" nor "delete", panics.
fsmApply(mm, data) ==
    LET u == UnmarshalCommand(data)
    IN  IF u.err THEN [panic |-> TRUE, m |-> mm]
        ELSE IF u.c.Op = <<"set">>
             THEN [panic |-> FALSE, m |-> applySet(mm, u.c.Key, u.c.Value)]
        ELSE IF u.c.Op = <<"delete">>
             THEN [panic |-> FALSE, m |-> applyDelete(mm, u.c.Key)]
        ELSE [panic |-> TRUE, m |-> mm]

\* fsm.Snapshot: the clone made under the mutex, held by the fsmSnapshot.
fsmSnapshot(mm) == [k \in DOMAIN mm |-> mm[k]]

RECURSIVE SortedKeys(_)
SortedKeys(ks) ==
    IF ks = {} THEN <<>>
    ELSE LET least == CHOOSE k \in ks : \A o \in ks \ {k} : LessStr(k, o)
         IN  <<least>> \o SortedKeys(ks \ {least})

MarshalMapDropEmpty(store) ==
    LET ks == SortedKeys({k \in DOMAIN store : store[k] # EmptyString})
    IN  JSONObject([i \in 1..Len(ks) |->
                      [name |-> EncodeString(ks[i]), val |-> EncodeString(store[ks[i]])]])

\* json.Marshal(f.store) for a map[string]string: every key is written, in
\* sorted order, empty values included.
MarshalMap(store) ==
    LET ks == SortedKeys(DOMAIN store)
    IN  JSONObject([i \in 1..Len(ks) |->
                      [name |-> EncodeString(ks[i]), val |-> EncodeString(store[ks[i]])]])

\* Decoding an object into a map: members are stored in order, a later
\* member with the same decoded key overwrites an earlier one.
RECURSIVE DecodeMembers(_, _)
DecodeMembers(members, o) ==
    IF members = <<>> THEN o
    ELSE DecodeMembers(Tail(members),
                       applySet(o, DecodeString(Head(members).name),
                                DecodeString(Head(members).val)))

fsmRestoreKeep(mm, rc) == [err |-> FALSE, m |-> mm]

\* fsm.Restore: decode one JSON value into a fresh map and replace f.m with
\* it; on a decode error f.m is left as it was.
fsmRestore(mm, rc) ==
    IF rc.kind # "object" THEN [err |-> TRUE, m |-> mm]
    ELSE [err |-> FALSE, m |-> DecodeMembers(rc.members, EmptyMap)]

PersistCloseAfterFailedWrite(store, writeFails, closeFails) ==
    LET b == MarshalMap(store)
    IN  IF writeFails
        THEN [err |-> TRUE, written |-> NoData, closed |-> TRUE, cancelled |-> TRUE]
        ELSE IF closeFails
        THEN [err |-> TRUE, written |-> b, closed |-> TRUE, cancelled |-> TRUE]
        ELSE [err |-> FALSE, written |-> b, closed |-> TRUE, cancelled |-> FALSE]

PersistNoCancel(store, writeFails, closeFails) ==
    LET b == MarshalMap(store)
    IN  IF writeFails
        THEN [err |-> TRUE, written |-> NoData, closed |-> FALSE, cancelled |-> FALSE]
        ELSE IF closeFails
        THEN [err |-> TRUE, written |-> b, closed |-> TRUE, cancelled |-> FALSE]
        ELSE [err |-> FALSE, written |-> b, closed |-> TRUE, cancelled |-> FALSE]

\* fsmSnapshot.Persist against a sink whose Write and Close may fail.
\* Returns the error, the bytes the sink holds and the calls made on it.
Persist(store, writeFails, closeFails) ==
    LET b == MarshalMap(store)
    IN  IF writeFails
        THEN [err |-> TRUE, written |-> NoData, closed |-> FALSE, cancelled |-> TRUE]
        ELSE IF closeFails
        THEN [err |-> TRUE, written |-> b, closed |-> TRUE, cancelled |-> TRUE]
        ELSE [err |-> FALSE, written |-> b, closed |-> TRUE, cancelled |-> FALSE]

(***************************************************************************)
(* Store.Open.  peers.json is missing, unreadable (ReadFile fails with an  *)
(* error other than not-exist), empty (zero bytes), or holds bytes: the    *)
(* JSON value null, a JSON array of strings, or anything else (kind        *)
(* "malformed": white space only, garbage, a value of another type).       *)
(***************************************************************************)
PeersFile(kind, peers) == [kind |-> kind, peers |-> peers]

readPeersJSONStrict(file) ==
    IF file.kind \in {"unreadable", "missing"} THEN [err |-> TRUE, peers |-> <<>>]
    ELSE IF file.kind = "empty" THEN [err |-> FALSE, peers |-> <<>>]
    ELSE IF file.kind = "null" THEN [err |-> FALSE, peers |-> <<>>]
    ELSE IF file.kind = "list" THEN [err |-> FALSE, peers |-> file.peers]
    ELSE [err |-> TRUE, peers |-> <<>>]

\* readPeersJSON: a missing or empty file gives no peers and no error.
readPeersJSON(file) ==
    IF file.kind = "unreadable" THEN [err |-> TRUE, peers |-> <<>>]
    ELSE IF file.kind \in {"missing", "empty"} THEN [err |-> FALSE, peers |-> <<>>]
    ELSE IF file.kind = "null" THEN [err |-> FALSE, peers |-> <<>>]
    ELSE IF file.kind = "list" THEN [err |-> FALSE, peers |-> file.peers]
    ELSE [err |-> TRUE, peers |-> <<>>]

SingleModeIgnoresFlag(enableSingle, peers) == Len(peers) <= 1

SingleModeFlagOnly(enableSingle, peers) == enableSingle

SingleModeOnePeerOnly(enableSingle, peers) == enableSingle /\ Len(peers) = 1

\* Open: if enableSingle && len(peers) <= 1 { config.EnableSingleNode = true }
SingleMode(enableSingle, peers) == enableSingle /\ Len(peers) <= 1

\* The steps of Open that can fail after the peers were read, in order.
OpenSteps == <<"resolve", "transport", "snapshots", "boltdb", "newraft">>
OpenFailures == {OpenSteps[i] : i \in 1..Len(OpenSteps)} \cup {"none"}

OpenIgnoresBolt(file, enableSingle, fails) ==
    LET r == readPeersJSON(file)
    IN  IF r.err
        THEN [err |-> "peers", single |-> FALSE, raft |-> FALSE]
        ELSE IF fails \notin {"none", "boltdb"}
        THEN [err |-> fails, single |-> SingleMode(enableSingle, r.peers), raft |-> FALSE]
        ELSE [err |-> "nil", single |-> SingleMode(enableSingle, r.peers), raft |-> TRUE]

\* Store.Open(enableSingle) with the environment failing step `fails`.
\* single is config.EnableSingleNode as Open set it; raft is whether NewRaft
\* returned an instance that was stored in s.raft.
Open(file, enableSingle, fails) ==
    LET r == readPeersJSON(file)
    IN  IF r.err
        THEN [err |-> "peers", single |-> FALSE, raft |-> FALSE]
        ELSE IF fails # "none"
        THEN [err |-> fails, single |-> SingleMode(enableSingle, r.peers), raft |-> FALSE]
        ELSE [err |-> "nil", single |-> SingleMode(enableSingle, r.peers), raft |-> TRUE]

(***************************************************************************)
(* SpecOpen: a Store that is opened, against every peers.json.             *)
(***************************************************************************)
MaxPeerEntries == 3
MaxOpens == 2

PeerAddrs == <<"addr1", "addr2", "addr3", "addr4">>

PeersFiles ==
    {PeersFile(k, <<>>) : k \in {"missing", "unreadable", "empty", "null", "malformed"}}
    \cup {PeersFile("list", SubSeq(PeerAddrs, 1, n)) : n \in 0..MaxPeerEntries}

NoOpen == [called |-> FALSE, enable |-> FALSE, err |-> "nil", single |-> FALSE]

OpenInit ==
    /\ ofile = PeersFile("missing", <<>>)
    /\ ostore = [raft |-> FALSE, single |-> FALSE, again |-> "none"]
    /\ olast = NoOpen
    /\ oopens = 0

\* The peer store, or the operator, leaves peers.json with some content
\* while the Store is not open.
OpenWritePeers(file) ==
    /\ ~ostore.raft
    /\ file # ofile
    /\ ofile' = file
    /\ olast' = NoOpen
    /\ UNCHANGED <<ostore, oopens>>
    /\ UNCHANGED <<fsmVars, clusterVars, applyVars, mutexVars, mainVars, readVars>>

OpenCall(enableSingle, fails) ==
    /\ ~ostore.raft
    /\ oopens < MaxOpens
    /\ LET o == Open(ofile, enableSingle, fails)
       IN  /\ olast' = [called |-> TRUE, enable |-> enableSingle,
                        err |-> o.err, single |-> o.single]
           /\ ostore' = [raft |-> o.raft, single |-> o.raft /\ o.single, again |-> "none"]
    /\ oopens' = oopens + 1
    /\ UNCHANGED ofile
    /\ UNCHANGED <<fsmVars, clusterVars, applyVars, mutexVars, mainVars, readVars>>

\* RaftBind names a port, or port 0 (the system picks a free one).
RaftBinds == {"fixed", "any"}

\* Store.Open called on a Store whose Raft instance runs.  Open has no check
\* of s.raft.  With a named port NewTCPTransport fails, the address being
\* in use by the first transport.  With port 0 the second transport binds,
\* and NewBoltStore waits without limit for the lock on raft.db that the
\* first instance's log store holds: the call does not return.
OpenAgain(file, enableSingle, bind) ==
    LET r == readPeersJSON(file)
    IN  IF r.err THEN "peers"
        ELSE IF bind = "fixed" THEN "transport"
        ELSE "blocked"

OpenCallAgain(enableSingle, bind) ==
    /\ ostore.raft
    /\ oopens < MaxOpens
    /\ ostore' = [ostore EXCEPT !.again = OpenAgain(ofile, enableSingle, bind)]
    /\ oopens' = oopens + 1
    /\ UNCHANGED <<ofile, olast>>
    /\ UNCHANGED <<fsmVars, clusterVars, applyVars, mutexVars, mainVars, readVars>>

OpenNext ==
    \/ \E file \in PeersFiles : OpenWritePeers(file)
    \/ \E es \in BOOLEAN, fails \in OpenFailures : OpenCall(es, fails)
    \/ \E es \in BOOLEAN, bind \in RaftBinds : OpenCallAgain(es, bind)

(***************************************************************************)
(* SpecFsm: a single fsm.  Set and Delete build a command, marshal it, and *)
(* fsm.Apply decodes and applies the record (the path a committed entry    *)
(* takes on one node); Snapshot, Persist and Restore follow store.go.      *)
(***************************************************************************)
MaxStrLen == 1
MaxFsmOps == 2

Atoms == {"a", "q", "xFF", "uFFFD"}

RECURSIVE StringsUpTo(_)
StringsUpTo(n) ==
    IF n = 0 THEN {<<>>}
    ELSE LET shorter == StringsUpTo(n - 1)
         IN  shorter \cup {Append(s, c) : s \in shorter, c \in Atoms}

GoStrings == StringsUpTo(MaxStrLen)

NoCommand == Command(<<"none">>, EmptyString, EmptyString)
NoSink == [used |-> FALSE, err |-> FALSE, written |-> NoData,
           closed |-> FALSE, cancelled |-> FALSE]

FsmInit ==
    /\ fm = New
    /\ fcmd = NoCommand
    /\ fdec = NoCommand
    /\ fsrc = EmptyMap
    /\ fsnap = [held |-> FALSE, store |-> EmptyMap]
    /\ fsink = NoSink
    /\ frestored = FALSE
    /\ frepeat = FALSE
    /\ fops = 0

\* The record of command c goes through fsm.Apply.
FsmSubmit(c) ==
    LET b == MarshalCommand(c)
        r == fsmApply(fm, b)
    IN  /\ fops < MaxFsmOps
        /\ ~r.panic
        /\ fm' = r.m
        /\ fcmd' = c
        /\ fdec' = UnmarshalCommand(b).c
        /\ fops' = fops + 1
        /\ frestored' = FALSE
        /\ frepeat' = (fops > 0 /\ ~frestored /\ c = fcmd)
        /\ UNCHANGED <<fsrc, fsnap, fsink>>
    /\ UNCHANGED <<openVars, clusterVars, applyVars, mutexVars, mainVars, readVars>>

\* Store.Set builds {Op: "set", Key: key, Value: value}.
FsmSet(key, value) == FsmSubmit(Command(<<"set">>, key, value))

\* Store.Delete builds {Op: "delete", Key: key}.
FsmDelete(key) == FsmSubmit(Command(<<"delete">>, key, EmptyString))

FsmSnapshot ==
    /\ ~fsnap.held
    /\ fsnap' = [held |-> TRUE, store |-> fsmSnapshot(fm)]
    /\ fsrc' = fm
    /\ UNCHANGED <<fm, fcmd, fdec, fsink, frestored, frepeat, fops>>
    /\ UNCHANGED <<openVars, clusterVars, applyVars, mutexVars, mainVars, readVars>>

FsmPersist(writeFails, closeFails) ==
    /\ fsnap.held
    /\ ~fsink.used
    /\ LET p == Persist(fsnap.store, writeFails, closeFails)
       IN  fsink' = [used |-> TRUE, err |-> p.err, written |-> p.written,
                     closed |-> p.closed, cancelled |-> p.cancelled]
    /\ UNCHANGED <<fm, fcmd, fdec, fsrc, fsnap, frestored, frepeat, fops>>
    /\ UNCHANGED <<openVars, clusterVars, applyVars, mutexVars, mainVars, readVars>>

\* The snapshot store hands Restore the bytes of a snapshot that was closed
\* and not cancelled.
FsmRestore ==
    /\ fsink.used
    /\ fsink.closed
    /\ ~fsink.cancelled
    /\ ~frestored
    /\ LET r == fsmRestore(fm, fsink.written)
       IN  /\ ~r.err
           /\ fm' = r.m
    /\ frestored' = TRUE
    /\ frepeat' = FALSE
    /\ UNCHANGED <<fcmd, fdec, fsrc, fsnap, fsink, fops>>
    /\ UNCHANGED <<openVars, clusterVars, applyVars, mutexVars, mainVars, readVars>>

FsmNext ==
    \/ \E k \in GoStrings, v \in GoStrings : FsmSet(k, v)
    \/ \E k \in GoStrings : FsmDelete(k)
    \/ FsmSnapshot
    \/ \E wf \in BOOLEAN, cf \in BOOLEAN : FsmPersist(wf, cf)
    \/ FsmRestore

(***************************************************************************)
(* SpecApply: the goroutine that hands the committed command entries of a  *)
(* node to fsm.Apply, one at a time and in order.  The entries hold any    *)
(* bytes: records Set and Delete wrote, and records they never write.  A   *)
(* panic in fsm.Apply is not recovered: it ends the process.               *)
(***************************************************************************)
MaxRecords == 3

Member(name, val) == [name |-> <<name>>, val |-> val]

\* The payloads a committed entry may hold.
Records ==
    {MarshalCommand(Command(<<"set">>, <<"a">>, v)) : v \in {<<"a">>, EmptyString}}
    \cup {MarshalCommand(Command(<<"delete">>, <<"a">>, EmptyString))}
    \cup {Garbage, JSONObject(<<>>), [kind |-> "null", members |-> <<>>],
          JSONObject(<<Member("key", <<"a">>), Member("value", <<"q">>)>>),
          JSONObject(<<Member("op", <<"get">>), Member("key", <<"a">>)>>),
          JSONObject(<<Member("op", <<"set">>), Member("key", <<"q">>),
                       Member("extra", <<"a">>)>>),
          JSONObject(<<Member("op", <<"set">>), Member("key", <<"a">>),
                       Member("op", <<"other">>)>>)}

ApplyInit ==
    /\ alog = <<>>
    /\ anext = 1
    /\ am = New
    /\ ahalted = FALSE

\* Raft commits one more command entry carrying d.
ApplyCommit(d) ==
    /\ Len(alog) < MaxRecords
    /\ alog' = Append(alog, d)
    /\ UNCHANGED <<anext, am, ahalted>>
    /\ UNCHANGED <<fsmVars, openVars, clusterVars, mutexVars, mainVars, readVars>>

\* The FSM goroutine calls fsm.Apply on the next committed entry.
ApplyRun ==
    /\ ~ahalted
    /\ anext <= Len(alog)
    /\ LET r == fsmApply(am, alog[anext])
       IN  /\ am' = r.m
           /\ ahalted' = r.panic
           /\ anext' = IF r.panic THEN anext ELSE anext + 1
    /\ UNCHANGED alog
    /\ UNCHANGED <<fsmVars, openVars, clusterVars, mutexVars, mainVars, readVars>>

ApplyNext ==
    \/ \E d \in Records : ApplyCommit(d)
    \/ ApplyRun

(***************************************************************************)
(* SpecMutex: the goroutines of one node around the map and its mutex.     *)
(* Raft's FSM goroutine calls fsm.Apply, fsm.Snapshot and fsm.Restore, one *)
(* at a time; Raft's snapshot goroutine calls Persist on the handle that   *)
(* Snapshot returned; an HTTP handler calls Store.Get.  A step is one      *)
(* statement: Lock, the access to the map, Unlock.  main starts the HTTP   *)
(* service after Open has returned; NewRaft restores the newest snapshot   *)
(* before it returns, and a follower that lags behind the leader's log is  *)
(* sent a snapshot and restores it while it runs.                          *)
(***************************************************************************)
MaxMutexOps == 4

MutexKey == <<"a">>

\* The commands Raft hands to fsm.Apply.
MutexCommands ==
    {Command(<<"set">>, MutexKey, <<"a">>), Command(<<"set">>, MutexKey, <<"q">>),
     Command(<<"delete">>, MutexKey, EmptyString)}

\* The snapshots Raft hands to fsm.Restore.
MutexSnapshots ==
    {MarshalMap(EmptyMap), MarshalMap(applySet(EmptyMap, MutexKey, <<"a">>)),
     MarshalMap(applySet(EmptyMap, MutexKey, <<"q">>))}

FsmIdle == [pc |-> "idle", c |-> NoCommand, o |-> EmptyMap]
GetIdle == [pc |-> "idle", key |-> EmptyString, value |-> EmptyString]
NoHandle == [pc |-> "none", store |-> EmptyMap, src |-> EmptyMap, written |-> NoData,
             overlapped |-> FALSE]

MutexInit ==
    /\ xm = New
    /\ xmu = "none"
    /\ xfsm = FsmIdle
    /\ xget = GetIdle
    /\ xsnap = NoHandle
    /\ xserving = FALSE
    /\ xops = 0

MutexOthersUnchanged ==
    UNCHANGED <<fsmVars, openVars, clusterVars, applyVars, mainVars, readVars>>

\* main: s.Open() has returned, h.Start().  A Restore that NewRaft runs is
\* over by then.
MxServe ==
    /\ ~xserving
    /\ xfsm.pc \notin {"restoreDecoded"}
    /\ xserving' = TRUE
    /\ UNCHANGED <<xm, xmu, xfsm, xget, xsnap, xops>>
    /\ MutexOthersUnchanged

\* fsm.Apply decoded command c; applySet / applyDelete: f.mu.Lock()
MxApplyLock(c) ==
    /\ xfsm.pc = "idle"
    /\ xmu = "none"
    /\ xops < MaxMutexOps
    /\ xops' = xops + 1
    /\ xmu' = "fsm"
    /\ xfsm' = [FsmIdle EXCEPT !.pc = "applyLocked", !.c = c]
    /\ UNCHANGED <<xm, xget, xsnap, xserving>>
    /\ MutexOthersUnchanged

\* applySet: f.m[key] = value; applyDelete: delete(f.m, key)
MxApplyWrite ==
    /\ xfsm.pc = "applyLocked"
    /\ xm' = IF xfsm.c.Op = <<"set">> THEN applySet(xm, xfsm.c.Key, xfsm.c.Value)
             ELSE applyDelete(xm, xfsm.c.Key)
    /\ xfsm' = [xfsm EXCEPT !.pc = "applyWritten"]
    /\ xsnap' = [xsnap EXCEPT !.overlapped = @ \/ xsnap.pc = "persisting"]
    /\ UNCHANGED <<xmu, xget, xserving, xops>>
    /\ MutexOthersUnchanged

\* applySet / applyDelete: defer f.mu.Unlock()
MxApplyUnlock ==
    /\ xfsm.pc = "applyWritten"
    /\ xmu' = "none"
    /\ xfsm' = FsmIdle
    /\ UNCHANGED <<xm, xget, xsnap, xserving, xops>>
    /\ MutexOthersUnchanged

\* fsm.Snapshot: f.mu.Lock()
MxSnapshotLock ==
    /\ xfsm.pc = "idle"
    /\ xsnap.pc \in {"none", "done"}
    /\ xmu = "none"
    /\ xops < MaxMutexOps
    /\ xops' = xops + 1
    /\ xmu' = "fsm"
    /\ xfsm' = [FsmIdle EXCEPT !.pc = "snapLocked"]
    /\ UNCHANGED <<xm, xget, xsnap, xserving>>
    /\ MutexOthersUnchanged

\* fsm.Snapshot: o := make(map[string]string); for k, v := range f.m { o[k] = v }
MxSnapshotClone ==
    /\ xfsm.pc = "snapLocked"
    /\ xfsm' = [xfsm EXCEPT !.pc = "snapCloned", !.o = fsmSnapshot(xm)]
    /\ UNCHANGED <<xm, xmu, xget, xsnap, xserving, xops>>
    /\ MutexOthersUnchanged

\* fsm.Snapshot: return &fsmSnapshot{store: o}, nil, and the deferred Unlock.
MxSnapshotReturn ==
    /\ xfsm.pc = "snapCloned"
    /\ xmu' = "none"
    /\ xsnap' = [NoHandle EXCEPT !.pc = "held", !.store = xfsm.o, !.src = xm]
    /\ xfsm' = FsmIdle
    /\ UNCHANGED <<xm, xget, xserving, xops>>
    /\ MutexOthersUnchanged

\* Raft's snapshot goroutine calls Persist on the handle.
MxPersistBegin ==
    /\ xsnap.pc = "held"
    /\ xsnap' = [xsnap EXCEPT !.pc = "persisting"]
    /\ UNCHANGED <<xm, xmu, xfsm, xget, xserving, xops>>
    /\ MutexOthersUnchanged

MxPersistEndLiveMap ==
    /\ xsnap.pc = "persisting"
    /\ xsnap' = [xsnap EXCEPT !.pc = "done", !.written = Persist(xm, FALSE, FALSE).written]
    /\ UNCHANGED <<xm, xmu, xfsm, xget, xserving, xops>>
    /\ MutexOthersUnchanged

\* Persist: json.Marshal(f.store), sink.Write(b), sink.Close()
MxPersistEnd ==
    /\ xsnap.pc = "persisting"
    /\ xsnap' = [xsnap EXCEPT !.pc = "done",
                              !.written = Persist(xsnap.store, FALSE, FALSE).written]
    /\ UNCHANGED <<xm, xmu, xfsm, xget, xserving, xops>>
    /\ MutexOthersUnchanged

\* fsm.Restore: o := make(map[string]string); json.NewDecoder(rc).Decode(&o)
MxRestoreDecode(rc) ==
    /\ xfsm.pc = "idle"
    /\ xops < MaxMutexOps
    /\ xops' = xops + 1
    /\ LET r == fsmRestore(xm, rc)
       IN  /\ ~r.err
           /\ xfsm' = [FsmIdle EXCEPT !.pc = "restoreDecoded", !.o = r.m]
    /\ UNCHANGED <<xm, xmu, xget, xsnap, xserving>>
    /\ MutexOthersUnchanged

\* fsm.Restore: f.m = o, with no lock taken.  When a Get is reading at that
\* moment the access is a data race: the reader sees the map of before or
\* the map of after, which is what the order of the two steps gives.
MxRestoreAssign ==
    /\ xfsm.pc = "restoreDecoded"
    /\ xm' = xfsm.o
    /\ xfsm' = FsmIdle
    /\ UNCHANGED <<xmu, xget, xsnap, xserving, xops>>
    /\ MutexOthersUnchanged

\* Store.Get: s.mu.Lock()
MxGetLock(key) ==
    /\ xserving
    /\ xget.pc = "idle"
    /\ xmu = "none"
    /\ xops < MaxMutexOps
    /\ xops' = xops + 1
    /\ xmu' = "get"
    /\ xget' = [GetIdle EXCEPT !.pc = "locked", !.key = key]
    /\ UNCHANGED <<xm, xfsm, xsnap, xserving>>
    /\ MutexOthersUnchanged

\* Store.Get: s.m[key]
MxGetRead ==
    /\ xget.pc = "locked"
    /\ xget' = [xget EXCEPT !.pc = "read", !.value = Get(xm, xget.key)]
    /\ UNCHANGED <<xm, xmu, xfsm, xsnap, xserving, xops>>
    /\ MutexOthersUnchanged

\* Store.Get: defer s.mu.Unlock(), return
MxGetUnlock ==
    /\ xget.pc = "read"
    /\ xmu' = "none"
    /\ xget' = [xget EXCEPT !.pc = "idle"]
    /\ UNCHANGED <<xm, xfsm, xsnap, xserving, xops>>
    /\ MutexOthersUnchanged

MutexNext ==
    \/ MxServe
    \/ \E c \in MutexCommands : MxApplyLock(c)
    \/ MxApplyWrite
    \/ MxApplyUnlock
    \/ MxSnapshotLock
    \/ MxSnapshotClone
    \/ MxSnapshotReturn
    \/ MxPersistBegin
    \/ MxPersistEnd
    \/ \E rc \in MutexSnapshots : MxRestoreDecode(rc)
    \/ MxRestoreAssign
    \/ MxGetLock(MutexKey)
    \/ MxGetRead
    \/ MxGetUnlock

(***************************************************************************)
(* Spec: the cluster.  The Raft engine (github.com/hashicorp/raft) is the  *)
(* environment of store.go: terms, elections by quorum, leader-appended    *)
(* logs, replication, commit by quorum, in-order apply, snapshots and log  *)
(* compaction.  A vote and an AppendEntries exchange are one step each.    *)
(***************************************************************************)
Nodes == {"n1", "n2", "n3"}

\* The two nodes of the cluster followed through crashes, restarts and
\* snapshots.
Pair == {"n1", "n2"}

\* The node started without -join: the only one opened with enableSingle on
\* a RaftDir that does not yet list two peers.
Bootstrap == "n1"

MaxTerm == 2
MaxLog == 3
MaxLogSingle == 4
MaxLogTrio == 6
MaxCrashes == 1
MaxCalls == 3
MaxCallsTrio == 4
MaxSnapshots == 1

\* The keys and the value clients write with in the cluster.
ClusterKeys == {<<"a">>, <<"xFF">>}
ClusterValues == {<<"a">>}

Entry(term, type, data, peers) ==
    [term |-> term, type |-> type, data |-> data, peers |-> peers]

NoSnap == [has |-> FALSE, index |-> 0, term |-> 0, data |-> NoData,
           peers |-> {}, hist |-> <<>>]

NoCall == [pc |-> "idle", op |-> "none", node |-> Bootstrap, key |-> EmptyString,
           value |-> EmptyString, addr |-> Bootstrap, idx |-> 0, term |-> 0,
           fut |-> "none", res |-> "none", n |-> 0, state |-> "none"]

LastIndex(n) == logBase[n] + Len(log[n])
EntryAt(n, i) == log[n][i - logBase[n]]
TermAt(n, i) ==
    IF i > logBase[n] THEN EntryAt(n, i).term
    ELSE IF i = 0 THEN 0
    ELSE snap[n].term
LastTerm(n) == TermAt(n, LastIndex(n))

\* r.peers: the persisted peers other than the node itself.
Peers(n) == peersFile[n] \ {n}
QuorumSize(n) == ((Cardinality(Peers(n)) + 1) \div 2) + 1

\* The log a node is followed up to: a node without peers has room for the
\* entries of a restart, a node of three for those of a change of leader.
LogBound(n) ==
    IF Peers(n) = {} THEN MaxLogSingle
    ELSE IF Cardinality(Peers(n)) = 1 THEN MaxLog
    ELSE MaxLogTrio

\* The client calls followed: one more once three nodes form the cluster.
CallBound ==
    IF \E n \in Nodes : Cardinality(Peers(n)) >= 2 THEN MaxCallsTrio ELSE MaxCalls

RECURSIVE SetToSeq(_)
SetToSeq(S) ==
    IF S = {} THEN <<>>
    ELSE LET x == CHOOSE y \in S : TRUE IN <<x>> \o SetToSeq(S \ {x})

\* peers.json as the peer store leaves it: absent until peers were set.
PeersFileOf(n) ==
    IF peersFile[n] = {} THEN PeersFile("missing", <<>>)
    ELSE PeersFile("list", SetToSeq(peersFile[n]))

NoStop == [valid |-> FALSE, at |-> 0, m |-> EmptyMap, hist |-> <<>>, lost |-> FALSE]

ClusterInit ==
    /\ peersFile = [n \in Nodes |-> {}]
    /\ currentTerm = [n \in Nodes |-> 0]
    /\ log = [n \in Nodes |-> <<>>]
    /\ logBase = [n \in Nodes |-> 0]
    /\ snap = [n \in Nodes |-> NoSnap]
    /\ opened = [n \in Nodes |-> FALSE]
    /\ enableSingleNode = [n \in Nodes |-> FALSE]
    /\ raftState = [n \in Nodes |-> "Shutdown"]
    /\ commitIndex = [n \in Nodes |-> 0]
    /\ lastApplied = [n \in Nodes |-> 0]
    /\ m = [n \in Nodes |-> New]
    /\ call = NoCall
    /\ stopped = [n \in Nodes |-> NoStop]
    /\ committed = <<>>
    /\ applied = [n \in Nodes |-> <<>>]
    /\ votes = [n \in Nodes |-> {}]
    /\ enableSingleArg = [n \in Nodes |-> FALSE]
    /\ crashes = 0
    /\ snapshots = 0

OthersUnchanged == UNCHANGED <<fsmVars, openVars, applyVars, mutexVars, mainVars, readVars>>

\* What is kept of a call that has returned: its result, and for a write
\* that returned nil the key and value; fut says whether the process that
\* served it is still the one running ("live") or not ("gone").
Returned(c, res) ==
    IF res = "nil"
    THEN [NoCall EXCEPT !.pc = "done", !.op = c.op, !.node = c.node, !.res = res,
                        !.n = c.n, !.key = c.key, !.value = c.value, !.fut = "live"]
    ELSE [NoCall EXCEPT !.pc = "done", !.op = c.op, !.node = c.node, !.res = res,
                        !.n = c.n]

\* The map of node n is replaced (the process died, or a snapshot was
\* installed): a call node n had served is no longer served by that map.
MapReplaced(c, n) ==
    IF c.pc = "done" /\ c.node = n /\ c.fut = "live" THEN [c EXCEPT !.fut = "gone"] ELSE c

\* A pending future of a node in S fails with err (its leader loop ended).
FailPending(S, err) ==
    IF call.pc = "waiting" /\ call.fut = "pending" /\ call.node \in S
    THEN [call EXCEPT !.fut = err]
    ELSE call

(***************************************************************************)
(* The process: Open, and a crash of the process.                          *)
(***************************************************************************)

\* The operator passes enableSingle to a node other than Bootstrap only once
\* its peers.json lists at least two peers (where Open ignores the flag).
MayEnableSingle(n) == n = Bootstrap \/ Cardinality(peersFile[n]) >= 2

\* main: store.New(), then Store.Open; raft.NewRaft restores the newest
\* snapshot through fsm.Restore and starts the node as a Follower.
StoreOpen(n, enableSingle) ==
    /\ ~opened[n]
    /\ enableSingle => MayEnableSingle(n)
    /\ LET o == Open(PeersFileOf(n), enableSingle, "none")
           r == fsmRestore(New, snap[n].data)
       IN  /\ o.err = "nil"
           /\ opened' = [opened EXCEPT ![n] = TRUE]
           /\ enableSingleNode' = [enableSingleNode EXCEPT ![n] = o.single]
           /\ m' = [m EXCEPT ![n] = IF snap[n].has THEN r.m ELSE New]
    /\ raftState' = [raftState EXCEPT ![n] = "Follower"]
    /\ commitIndex' = [commitIndex EXCEPT ![n] = snap[n].index]
    /\ lastApplied' = [lastApplied EXCEPT ![n] = snap[n].index]
    /\ applied' = [applied EXCEPT ![n] = snap[n].hist]
    /\ enableSingleArg' = [enableSingleArg EXCEPT ![n] = enableSingle]
    /\ UNCHANGED <<diskVars, call, committed, votes, crashes, snapshots>>
    /\ OthersUnchanged

\* The process ends: everything but the RaftDir is lost.
Halt(n) ==
    /\ opened[n]
    /\ crashes < MaxCrashes
    /\ crashes' = crashes + 1
    /\ opened' = [opened EXCEPT ![n] = FALSE]
    /\ enableSingleNode' = [enableSingleNode EXCEPT ![n] = FALSE]
    /\ raftState' = [raftState EXCEPT ![n] = "Shutdown"]
    /\ commitIndex' = [commitIndex EXCEPT ![n] = 0]
    /\ lastApplied' = [lastApplied EXCEPT ![n] = 0]
    /\ m' = [m EXCEPT ![n] = New]
    /\ applied' = [applied EXCEPT ![n] = <<>>]
    /\ votes' = [votes EXCEPT ![n] = {}]
    /\ enableSingleArg' = [enableSingleArg EXCEPT ![n] = FALSE]
    /\ call' = IF call.node = n /\ call.pc \in {"checked", "waiting"}
               THEN Returned(call, "crashed")
               ELSE MapReplaced(call, n)
    /\ UNCHANGED <<diskVars, committed, snapshots>>
    /\ UNCHANGED <<fsmVars, openVars, applyVars, mutexVars, mainVars>>

\* The process dies.
Crash(n) == Halt(n) /\ UNCHANGED stopped

\* The process is stopped, and what it held is noted.
Stop(n) ==
    /\ Halt(n)
    /\ stopped' = [stopped EXCEPT ![n] =
                      [valid |-> TRUE, at |-> lastApplied[n], m |-> m[n],
                       hist |-> applied[n], lost |-> FALSE]]

\* While the node is stopped its raft.db (log and stable store) is removed;
\* the snapshots and peers.json stay.  Raft then starts from the newest
\* snapshot: its last index and term are those of the snapshot.
LoseLog(n) ==
    /\ ~opened[n]
    /\ snap[n].has
    /\ stopped[n].valid /\ ~stopped[n].lost
    /\ Peers(n) = {}
    /\ log' = [log EXCEPT ![n] = <<>>]
    /\ logBase' = [logBase EXCEPT ![n] = snap[n].index]
    /\ currentTerm' = [currentTerm EXCEPT ![n] = 0]
    /\ committed' = SubSeq(committed, 1, snap[n].index)
    /\ stopped' = [stopped EXCEPT ![n].lost = TRUE]
    /\ UNCHANGED <<peersFile, snap, procVars, call, applied, votes, enableSingleArg,
                   crashes, snapshots>>
    /\ UNCHANGED <<fsmVars, openVars, applyVars, mutexVars, mainVars>>

(***************************************************************************)
(* Elections.                                                              *)
(***************************************************************************)

\* The heartbeat timeout of a follower, or the election timeout of a
\* candidate: a node with no known peer starts an election only in
\* single-node mode.
Timeout(n) ==
    /\ opened[n]
    /\ raftState[n] \in {"Follower", "Candidate"}
    /\ Peers(n) # {} \/ enableSingleNode[n]
    /\ currentTerm[n] < MaxTerm
    /\ currentTerm' = [currentTerm EXCEPT ![n] = currentTerm[n] + 1]
    /\ raftState' = [raftState EXCEPT ![n] = "Candidate"]
    /\ UNCHANGED <<peersFile, log, logBase, snap, opened, enableSingleNode,
                   commitIndex, lastApplied, m, call, histVars>>
    /\ OthersUnchanged

\* Voter q grants its vote to candidate n: it has not seen n's term, and
\* n's log is at least as up to date as its own.
Grants(q, n) ==
    /\ opened[q]
    /\ currentTerm[q] < currentTerm[n]
    /\ \/ LastTerm(n) > LastTerm(q)
       \/ LastTerm(n) = LastTerm(q) /\ LastIndex(n) >= LastIndex(q)

\* Candidate n wins with its own vote and those of Q, and appends the no-op
\* entry of its term.
BecomeLeader(n, Q) ==
    /\ opened[n]
    /\ raftState[n] = "Candidate"
    /\ Q \subseteq Peers(n)
    /\ \A q \in Q : Grants(q, n)
    /\ Cardinality(Q) + 1 >= QuorumSize(n)
    /\ LastIndex(n) < LogBound(n)
    /\ raftState' = [x \in Nodes |->
                       IF x = n THEN "Leader"
                       ELSE IF x \in Q THEN "Follower" ELSE raftState[x]]
    /\ currentTerm' = [x \in Nodes |-> IF x \in Q THEN currentTerm[n] ELSE currentTerm[x]]
    /\ log' = [log EXCEPT ![n] = Append(@, Entry(currentTerm[n], "noop", NoData, {}))]
    /\ votes' = [votes EXCEPT ![n] = Q \cup {n}]
    /\ call' = FailPending(Q, "ErrLeadershipLost")
    /\ UNCHANGED <<peersFile, logBase, snap, opened, enableSingleNode,
                   commitIndex, lastApplied, m, committed, applied, enableSingleArg,
                   crashes, snapshots>>
    /\ OthersUnchanged

\* A leader that cannot reach a quorum of its peers steps down: too many of
\* them are not running, or have moved to a later term.
StepDown(n) ==
    /\ opened[n]
    /\ raftState[n] = "Leader"
    /\ Cardinality({q \in Peers(n) : opened[q] /\ currentTerm[q] <= currentTerm[n]}) + 1
          < QuorumSize(n)
    /\ raftState' = [raftState EXCEPT ![n] = "Follower"]
    /\ call' = FailPending({n}, "ErrLeadershipLost")
    /\ UNCHANGED <<diskVars, opened, enableSingleNode, commitIndex, lastApplied, m,
                   histVars>>
    /\ OthersUnchanged

(***************************************************************************)
(* Replication and commit.                                                 *)
(***************************************************************************)

\* The indexes at which both nodes know the term of the entry and agree on
\* it; by log matching the logs agree up to the greatest of them.
Agreeing(i, j) ==
    {k \in 0..MaxLogTrio :
        /\ k >= logBase[i] /\ k >= logBase[j]
        /\ k <= LastIndex(i) /\ k <= LastIndex(j)
        /\ TermAt(i, k) = TermAt(j, k)}

Max(S) == CHOOSE x \in S : \A y \in S : y <= x
Min(a, b) == IF a <= b THEN a ELSE b

\* AppendEntries from leader i brings follower j's log to the leader's: the
\* entries after the point of agreement are replaced by the leader's.
Replicate(i, j) ==
    /\ opened[i] /\ opened[j]
    /\ raftState[i] = "Leader"
    /\ j \in Peers(i)
    /\ currentTerm[j] <= currentTerm[i]
    /\ Agreeing(i, j) # {}
    /\ LET k == Max(Agreeing(i, j))
           newLog == SubSeq(log[j], 1, k - logBase[j])
                     \o SubSeq(log[i], k - logBase[i] + 1, Len(log[i]))
           newCommit == IF commitIndex[i] > commitIndex[j]
                        THEN commitIndex[i] ELSE commitIndex[j]
       IN  /\ \/ newLog # log[j]
              \/ newCommit # commitIndex[j]
              \/ currentTerm[j] # currentTerm[i]
              \/ raftState[j] # "Follower"
           /\ log' = [log EXCEPT ![j] = newLog]
           /\ commitIndex' = [commitIndex EXCEPT ![j] = newCommit]
    /\ currentTerm' = [currentTerm EXCEPT ![j] = currentTerm[i]]
    /\ raftState' = [raftState EXCEPT ![j] = "Follower"]
    /\ call' = FailPending({j}, "ErrLeadershipLost")
    /\ UNCHANGED <<peersFile, logBase, snap, opened, enableSingleNode,
                   lastApplied, m, histVars>>
    /\ OthersUnchanged

\* InstallSnapshot: the entries follower j needs were compacted away on
\* leader i, so j receives the leader's snapshot and restores it.
InstallSnapshot(i, j) ==
    /\ opened[i] /\ opened[j]
    /\ raftState[i] = "Leader"
    /\ j \in Peers(i)
    /\ currentTerm[j] <= currentTerm[i]
    /\ snap[i].has
    /\ LastIndex(j) < logBase[i]
    /\ LET r == fsmRestore(m[j], snap[i].data)
       IN  /\ ~r.err
           /\ m' = [m EXCEPT ![j] = r.m]
    /\ snap' = [snap EXCEPT ![j] = snap[i]]
    /\ log' = [log EXCEPT ![j] = <<>>]
    /\ logBase' = [logBase EXCEPT ![j] = snap[i].index]
    /\ peersFile' = [peersFile EXCEPT ![j] = snap[i].peers]
    /\ commitIndex' = [commitIndex EXCEPT ![j] = snap[i].index]
    /\ lastApplied' = [lastApplied EXCEPT ![j] = snap[i].index]
    /\ currentTerm' = [currentTerm EXCEPT ![j] = currentTerm[i]]
    /\ raftState' = [raftState EXCEPT ![j] = "Follower"]
    /\ applied' = [applied EXCEPT ![j] = snap[i].hist]
    /\ call' = MapReplaced(FailPending({j}, "ErrLeadershipLost"), j)
    /\ UNCHANGED <<opened, enableSingleNode, committed, votes, enableSingleArg,
                   crashes, snapshots>>
    /\ OthersUnchanged

\* The nodes that store leader i's entry k.
Stores(i, k) ==
    {j \in Peers(i) \cup {i} :
        /\ LastIndex(j) >= k
        /\ k >= logBase[j]
        /\ TermAt(j, k) = TermAt(i, k)}

\* Leader i commits up to k: an entry of its own term stored by a quorum.
AdvanceCommit(i) ==
    /\ opened[i]
    /\ raftState[i] = "Leader"
    /\ LET ks == {k \in (commitIndex[i] + 1)..LastIndex(i) :
                    /\ TermAt(i, k) = currentTerm[i]
                    /\ Cardinality(Stores(i, k)) >= QuorumSize(i)}
       IN  /\ ks # {}
           /\ commitIndex' = [commitIndex EXCEPT ![i] = Max(ks)]
           /\ committed' = committed \o
                 [x \in 1..(Max(ks) - Len(committed)) |-> EntryAt(i, Len(committed) + x)]
    /\ UNCHANGED <<diskVars, opened, enableSingleNode, raftState, lastApplied, m,
                   call, applied, votes, enableSingleArg, crashes, snapshots>>
    /\ OthersUnchanged

(***************************************************************************)
(* Apply: the next committed entry of node n is processed.  A command goes *)
(* to fsm.Apply; an AddPeer entry sets the peers; the future of the entry, *)
(* if the node holds one, is answered.                                     *)
(***************************************************************************)
ApplicableUncommitted(last, commit, lastIndex) == last < lastIndex

\* The next entry is handed on when it is committed.
Applicable(last, commit, lastIndex) == last < commit

ApplyCommitted(n) ==
    /\ opened[n]
    /\ Applicable(lastApplied[n], commitIndex[n], LastIndex(n))
    /\ LET i == lastApplied[n] + 1
           e == EntryAt(n, i)
           r == fsmApply(m[n], e.data)
       IN  /\ e.type = "cmd" => ~r.panic
           /\ m' = [m EXCEPT ![n] = IF e.type = "cmd" THEN r.m ELSE @]
           /\ applied' = [applied EXCEPT ![n] =
                             IF e.type = "cmd" THEN Append(@, e.data) ELSE @]
           /\ peersFile' = [peersFile EXCEPT ![n] =
                               IF e.type = "addpeer" THEN e.peers ELSE @]
           /\ lastApplied' = [lastApplied EXCEPT ![n] = i]
           /\ call' = IF /\ call.pc = "waiting" /\ call.fut = "pending"
                         /\ call.node = n /\ call.idx = i
                      THEN [call EXCEPT !.fut = "nil"]
                      ELSE call
    /\ UNCHANGED <<currentTerm, log, logBase, snap, opened, enableSingleNode,
                   raftState, commitIndex, committed, votes, enableSingleArg,
                   crashes, snapshots>>
    /\ OthersUnchanged

(***************************************************************************)
(* Snapshots: fsm.Snapshot clones the map, Persist writes it to the sink   *)
(* of the snapshot store; Raft may then drop the log up to the snapshot.   *)
(***************************************************************************)
TakeSnapshotDropsLog(n, compact) ==
    /\ opened[n]
    /\ lastApplied[n] > snap[n].index
    /\ snapshots < MaxSnapshots
    /\ snapshots' = snapshots + 1
    /\ LET p == Persist(fsmSnapshot(m[n]), FALSE, FALSE)
       IN  snap' = [snap EXCEPT ![n] =
                       [has |-> TRUE, index |-> lastApplied[n],
                        term |-> TermAt(n, lastApplied[n]), data |-> p.written,
                        peers |-> peersFile[n], hist |-> applied[n]]]
    /\ IF compact
       THEN /\ log' = [log EXCEPT ![n] = <<>>]
            /\ logBase' = [logBase EXCEPT ![n] = LastIndex(n)]
       ELSE UNCHANGED <<log, logBase>>
    /\ UNCHANGED <<peersFile, currentTerm, procVars, call, committed, applied,
                   votes, enableSingleArg, crashes>>
    /\ OthersUnchanged

TakeSnapshot(n, compact) ==
    /\ opened[n]
    /\ lastApplied[n] > snap[n].index
    /\ snapshots < MaxSnapshots
    /\ snapshots' = snapshots + 1
    /\ LET p == Persist(fsmSnapshot(m[n]), FALSE, FALSE)
       IN  snap' = [snap EXCEPT ![n] =
                       [has |-> TRUE, index |-> lastApplied[n],
                        term |-> TermAt(n, lastApplied[n]), data |-> p.written,
                        peers |-> peersFile[n], hist |-> applied[n]]]
    /\ IF compact
       THEN /\ log' = [log EXCEPT ![n] =
                          SubSeq(@, lastApplied[n] - logBase[n] + 1, Len(@))]
            /\ logBase' = [logBase EXCEPT ![n] = lastApplied[n]]
       ELSE UNCHANGED <<log, logBase>>
    /\ UNCHANGED <<peersFile, currentTerm, procVars, call, committed, applied,
                   votes, enableSingleArg, crashes>>
    /\ OthersUnchanged

(***************************************************************************)
(* Store.Set, Store.Delete and Store.Join.  A call is three steps: the     *)
(* leader check, raft.Apply (the leader loop appends the record to its     *)
(* log; any other node answers ErrNotLeader; the enqueue may time out      *)
(* after raftTimeout), and the return of f.Error().                        *)
(***************************************************************************)
SetNoLeaderCheck(state) == FALSE

\* Set: if s.raft.State() != raft.Leader { return fmt.Errorf("not leader") }
SetNotLeader(state) == state # "Leader"

\* Delete: if s.raft.State() != raft.Leader { return fmt.Errorf("not leader") }
DeleteNotLeader(state) == state # "Leader"

\* Set: c := &command{Op: "set", Key: key, Value: value}
SetCommand(key, value) == Command(<<"set">>, key, value)

\* Delete: c := &command{Op: "delete", Key: key}
DeleteCommand(key) == Command(<<"delete">>, key, EmptyString)

SetReturnsNil(fut) == "nil"

\* Set: return f.Error()
SetResult(fut) == fut

DeleteReturnsNil(fut) == "nil"

\* Delete: return f.Error()
DeleteResult(fut) == fut

NotLeaderCheck(op, state) ==
    IF op = "set" THEN SetNotLeader(state) ELSE DeleteNotLeader(state)

WriteBegin(op, n, key, value) ==
    /\ call.pc \in {"idle", "done"}
    /\ opened[n]
    /\ call.n < CallBound
    /\ call' = IF NotLeaderCheck(op, raftState[n])
               THEN Returned([NoCall EXCEPT !.op = op, !.node = n, !.n = call.n + 1],
                             "not leader")
               ELSE [NoCall EXCEPT !.pc = "checked", !.op = op, !.node = n,
                                   !.key = key, !.value = value, !.n = call.n + 1]
    /\ UNCHANGED <<diskVars, procVars, histVars>>
    /\ OthersUnchanged

SetBegin(n, key, value) == WriteBegin("set", n, key, value)

DeleteBegin(n, key) == WriteBegin("delete", n, key, EmptyString)

\* raft.Apply(b, raftTimeout) on a node whose leader loop takes the record.
WriteSubmit ==
    /\ call.pc = "checked"
    /\ LET n == call.node
           b == MarshalCommand(IF call.op = "set" THEN SetCommand(call.key, call.value)
                               ELSE DeleteCommand(call.key))
       IN  IF raftState[n] = "Leader"
           THEN /\ LastIndex(n) < LogBound(n)
                /\ log' = [log EXCEPT ![n] = Append(@, Entry(currentTerm[n], "cmd", b, {}))]
                /\ call' = [call EXCEPT !.pc = "waiting", !.fut = "pending",
                                        !.idx = LastIndex(n) + 1,
                                        !.term = currentTerm[n]]
           ELSE /\ call' = [call EXCEPT !.pc = "waiting", !.fut = "ErrNotLeader"]
                /\ UNCHANGED log
    /\ UNCHANGED <<peersFile, currentTerm, logBase, snap, procVars, histVars>>
    /\ OthersUnchanged

\* The log entry a write call waits for.
RecordOf(c) ==
    Entry(c.term, "cmd",
          MarshalCommand(IF c.op = "set" THEN SetCommand(c.key, c.value)
                         ELSE DeleteCommand(c.key)),
          {})

WriteTimeoutAfterAppend ==
    /\ call.pc = "checked"
    /\ raftState[call.node] = "Leader"
    /\ LastIndex(call.node) < LogBound(call.node)
    /\ log' = [log EXCEPT ![call.node] =
                  Append(@, [RecordOf(call) EXCEPT !.term = currentTerm[call.node]])]
    /\ call' = [call EXCEPT !.pc = "waiting", !.fut = "ErrEnqueueTimeout"]
    /\ UNCHANGED <<peersFile, currentTerm, logBase, snap, procVars, histVars>>
    /\ OthersUnchanged

\* raft.Apply gives up after raftTimeout when the record could not be handed
\* to the leader loop: nothing is appended.
WriteEnqueueTimeout ==
    /\ call.pc = "checked"
    /\ call' = [call EXCEPT !.pc = "waiting", !.fut = "ErrEnqueueTimeout"]
    /\ UNCHANGED <<diskVars, procVars, histVars>>
    /\ OthersUnchanged

\* f.Error() returns once the future is answered.
WriteReturn ==
    /\ call.pc = "waiting"
    /\ call.op \in {"set", "delete"}
    /\ call.fut # "pending"
    /\ LET res == IF call.op = "set" THEN SetResult(call.fut)
                  ELSE DeleteResult(call.fut)
       IN  call' = Returned(call, res)
    /\ UNCHANGED <<diskVars, procVars, histVars>>
    /\ OthersUnchanged

StoreGetViaLog(n, key) ==
    /\ call.pc \in {"idle", "done"}
    /\ opened[n]
    /\ call.n < CallBound
    /\ LastIndex(n) < LogBound(n)
    /\ log' = [log EXCEPT ![n] =
                  Append(@, Entry(currentTerm[n], "cmd",
                                  MarshalCommand(Command(<<"get">>, key, EmptyString)), {}))]
    /\ call' = [NoCall EXCEPT !.pc = "done", !.op = "get", !.node = n, !.key = key,
                              !.value = Get(m[n], key), !.res = "nil",
                              !.state = raftState[n], !.n = call.n + 1]
    /\ UNCHANGED <<peersFile, currentTerm, logBase, snap, procVars, histVars>>
    /\ OthersUnchanged

\* Store.Get(key) on node n, in whatever state its Raft is: the map is read
\* under the mutex and the error is nil.
StoreGet(n, key) ==
    /\ call.pc \in {"idle", "done"}
    /\ opened[n]
    /\ call.n < CallBound
    /\ call' = [NoCall EXCEPT !.pc = "done", !.op = "get", !.node = n, !.key = key,
                              !.value = Get(m[n], key), !.res = "nil",
                              !.state = raftState[n], !.n = call.n + 1]
    /\ UNCHANGED <<diskVars, procVars, histVars>>
    /\ OthersUnchanged

JoinCallForgets(n, addr) ==
    /\ call.pc \in {"idle", "done"}
    /\ opened[n] /\ opened[addr]
    /\ addr # n
    /\ call.n < CallBound
    /\ call' = [NoCall EXCEPT !.op = "join", !.node = n, !.addr = addr,
                              !.pc = "waiting", !.n = call.n + 1, !.fut = "nil"]
    /\ UNCHANGED <<diskVars, procVars, histVars>>
    /\ OthersUnchanged

\* Store.Join(addr): s.raft.AddPeer(addr).  The leader appends an AddPeer
\* entry naming the new peer set and adopts it at once; a node that is not
\* the leader answers ErrNotLeader, a known peer gives ErrKnownPeer.  The
\* node at addr must be ready to respond to Raft communications.
JoinCall(n, addr) ==
    /\ call.pc \in {"idle", "done"}
    /\ opened[n] /\ opened[addr]
    /\ addr # n
    /\ call.n < CallBound
    /\ LET c == [NoCall EXCEPT !.op = "join", !.node = n, !.addr = addr,
                               !.pc = "waiting", !.n = call.n + 1]
       IN  IF raftState[n] # "Leader"
           THEN /\ call' = [c EXCEPT !.fut = "ErrNotLeader"]
                /\ UNCHANGED <<log, peersFile>>
           ELSE IF addr \in Peers(n)
           THEN /\ call' = [c EXCEPT !.fut = "ErrKnownPeer"]
                /\ UNCHANGED <<log, peersFile>>
           ELSE /\ LastIndex(n) < MaxLog
                /\ log' = [log EXCEPT ![n] =
                              Append(@, Entry(currentTerm[n], "addpeer", NoData,
                                              peersFile[n] \cup {n, addr}))]
                /\ peersFile' = [peersFile EXCEPT ![n] = @ \cup {n, addr}]
                /\ call' = [c EXCEPT !.fut = "pending", !.idx = LastIndex(n) + 1,
                                     !.term = currentTerm[n]]
    /\ UNCHANGED <<currentTerm, logBase, snap, procVars, histVars>>
    /\ OthersUnchanged

JoinReturnsNil ==
    /\ call.pc = "waiting"
    /\ call.op = "join"
    /\ call.fut # "pending"
    /\ call' = Returned(call, "nil")
    /\ UNCHANGED <<diskVars, procVars, histVars>>
    /\ OthersUnchanged

\* Join: if f.Error() != nil { return f.Error() }; return nil
JoinReturn ==
    /\ call.pc = "waiting"
    /\ call.op = "join"
    /\ call.fut # "pending"
    /\ call' = Returned(call, call.fut)
    /\ UNCHANGED <<diskVars, procVars, histVars>>
    /\ OthersUnchanged

Next ==
    \/ \E n \in Pair, es \in BOOLEAN : StoreOpen(n, es)
    \/ \E n \in Pair : Crash(n)
    \/ \E n \in Pair : Timeout(n)
    \/ \E n \in Pair, Q \in SUBSET Pair : BecomeLeader(n, Q)
    \/ \E n \in Pair : StepDown(n)
    \/ \E i \in Pair, j \in Pair : Replicate(i, j)
    \/ \E i \in Pair, j \in Pair : InstallSnapshot(i, j)
    \/ \E n \in Pair : AdvanceCommit(n)
    \/ \E n \in Pair : ApplyCommitted(n)
    \/ \E n \in Pair, c \in BOOLEAN : TakeSnapshot(n, c)
    \/ \E n \in Pair, k \in ClusterKeys, v \in ClusterValues : SetBegin(n, k, v)
    \/ \E n \in Pair, k \in ClusterKeys : DeleteBegin(n, k)
    \/ WriteSubmit
    \/ WriteEnqueueTimeout
    \/ WriteReturn
    \/ \E n \in Pair, a \in Pair : JoinCall(n, a)
    \/ JoinReturn

\* SpecSingle: the node started without -join, alone: it is opened, elects
\* itself, serves Set, Delete and Get, snapshots, is stopped, may lose its raft.db
\* while stopped, and is reopened.
SingleNext ==
    \/ \E es \in BOOLEAN : StoreOpen(Bootstrap, es)
    \/ Stop(Bootstrap)
    \/ LoseLog(Bootstrap)
    \/ Timeout(Bootstrap)
    \/ BecomeLeader(Bootstrap, {})
    \/ AdvanceCommit(Bootstrap)
    \/ ApplyCommitted(Bootstrap)
    \/ \E c \in BOOLEAN : TakeSnapshot(Bootstrap, c)
    \/ \E k \in ClusterKeys, v \in ClusterValues : SetBegin(Bootstrap, k, v)
    \/ \E k \in ClusterKeys : DeleteBegin(Bootstrap, k)
    \/ WriteSubmit
    \/ WriteEnqueueTimeout
    \/ WriteReturn
    \/ \E k \in ClusterKeys : StoreGet(Bootstrap, k)

\* SpecSingleLive: the first node, opened and left running.
SingleLiveNext ==
    \/ \E es \in BOOLEAN : StoreOpen(Bootstrap, es)
    \/ Timeout(Bootstrap)
    \/ BecomeLeader(Bootstrap, {})
    \/ AdvanceCommit(Bootstrap)
    \/ ApplyCommitted(Bootstrap)
    \/ \E k \in ClusterKeys, v \in ClusterValues : SetBegin(Bootstrap, k, v)
    \/ \E k \in ClusterKeys : DeleteBegin(Bootstrap, k)
    \/ WriteSubmit
    \/ WriteReturn
    \/ \E k \in ClusterKeys : StoreGet(Bootstrap, k)

\* SpecTrio: the README's cluster of three.  The first node is started
\* alone and leads; the other two are started and joined through it; clients
\* write; the leader of the formed cluster may be killed, and is not brought
\* back.  Nothing else fails.

\* Every node runs and has the three peers in its peers.json.
Formed == \A n \in Nodes : opened[n] /\ peersFile[n] = Nodes

\* Node n's log is at least as up to date as that of every running node.
UpToDate(n) ==
    \A q \in Nodes \ {n} :
        opened[q] =>
            \/ LastTerm(n) > LastTerm(q)
            \/ LastTerm(n) = LastTerm(q) /\ LastIndex(n) >= LastIndex(q)

\* A follower's heartbeat timeout fires only when no leader is running.  The
\* election timeouts are randomised: of the elections that follow, the one
\* that is won is followed, that of a follower with an up-to-date log while
\* no other node is a candidate.
TrioTimeout(n) ==
    /\ raftState[n] = "Follower"
    /\ \A q \in Nodes \ {n} : opened[q] => raftState[q] = "Follower"
    /\ UpToDate(n)
    /\ Timeout(n)

\* The leader of the formed cluster is killed.
TrioKill(n) ==
    /\ Formed
    /\ raftState[n] = "Leader"
    /\ Crash(n)

\* A node is started once: Bootstrap without -join, the others to be joined.
TrioOpen(n) ==
    /\ crashes = 0
    /\ StoreOpen(n, n = Bootstrap)

\* The README's client: it joins a node that is not yet a peer through the
\* leader, and writes through the leader of the three.
TrioSet(n, key, value) ==
    /\ raftState[n] = "Leader"
    /\ peersFile[n] = Nodes
    /\ SetBegin(n, key, value)

TrioJoin(addr) ==
    /\ raftState[Bootstrap] = "Leader"
    /\ addr \notin Peers(Bootstrap)
    /\ JoinCall(Bootstrap, addr)

TrioNext ==
    \/ \E n \in Nodes : TrioOpen(n)
    \/ \E n \in Nodes : TrioKill(n)
    \/ \E n \in Nodes : TrioTimeout(n)
    \/ \E n \in Nodes, Q \in SUBSET Nodes : BecomeLeader(n, Q)
    \/ \E i \in Nodes, j \in Nodes : Replicate(i, j)
    \/ \E n \in Nodes : AdvanceCommit(n)
    \/ \E n \in Nodes : ApplyCommitted(n)
    \/ \E n \in Nodes, k \in ClusterKeys, v \in ClusterValues : TrioSet(n, k, v)
    \/ WriteSubmit
    \/ WriteReturn
    \/ \E a \in Nodes : TrioJoin(a)
    \/ JoinReturn

\* SpecJoin: the README's first two nodes.  The first node is started alone
\* and leads, the second is started with enableSingle false and joined
\* through the first; clients write through the leader, before and after
\* the join.  Nothing fails.
JoinSet(n, key, value) ==
    /\ raftState[n] = "Leader"
    /\ SetBegin(n, key, value)

\* A client that was told its Set succeeded reads the key back, on either node.
JoinGet(n, key) ==
    /\ call.pc = "done"
    /\ call.op = "set"
    /\ call.res = "nil"
    /\ call.key = key
    /\ StoreGet(n, key)

JoinNext ==
    \/ \E n \in Pair : TrioOpen(n)
    \/ \E n \in Pair : TrioTimeout(n)
    \/ \E n \in Pair, Q \in SUBSET Pair : BecomeLeader(n, Q)
    \/ \E i \in Pair, j \in Pair : Replicate(i, j)
    \/ \E n \in Pair : AdvanceCommit(n)
    \/ \E n \in Pair : ApplyCommitted(n)
    \/ \E n \in Pair, k \in ClusterKeys, v \in ClusterValues : JoinSet(n, k, v)
    \/ WriteSubmit
    \/ WriteReturn
    \/ \E a \in Pair : TrioJoin(a)
    \/ JoinReturn
    \/ \E n \in Pair, k \in ClusterKeys : JoinGet(n, k)

\* SpecRestart: the README's failure.  The cluster of three is formed as in
\* SpecTrio; then its leader is stopped, the others go on, and the node is
\* started again on the RaftDir it left, with either value of enableSingle.
RestartStop(n) ==
    /\ Formed
    /\ \A q \in Nodes : ~stopped[q].valid
    /\ raftState[n] = "Leader"
    /\ Stop(n)

\* The node is started again when no client call is in flight: a Set begun
\* while it was down has returned by then.
RestartOpen(n, enableSingle) ==
    /\ crashes > 0
    /\ call.pc \in {"idle", "done"}
    /\ StoreOpen(n, enableSingle)

\* Clients write through the leader of the two that go on while the third
\* is down.
RestartSet(n, key, value) ==
    /\ crashes > 0
    /\ \E q \in Nodes : ~opened[q]
    /\ raftState[n] = "Leader"
    /\ SetBegin(n, key, value)

RestartNext ==
    \/ \E n \in Nodes : TrioOpen(n)
    \/ \E n \in Nodes : RestartStop(n)
    \/ \E n \in Nodes, es \in BOOLEAN : RestartOpen(n, es)
    \/ \E n \in Nodes : TrioTimeout(n)
    \/ \E n \in Nodes, Q \in SUBSET Nodes : BecomeLeader(n, Q)
    \/ \E i \in Nodes, j \in Nodes : Replicate(i, j)
    \/ \E n \in Nodes : AdvanceCommit(n)
    \/ \E n \in Nodes : ApplyCommitted(n)
    \/ \E n \in Nodes, k \in ClusterKeys, v \in ClusterValues : RestartSet(n, k, v)
    \/ WriteSubmit
    \/ WriteReturn
    \/ \E a \in Nodes : TrioJoin(a)
    \/ JoinReturn

\* SpecMain: the processes of the README's first two nodes as main starts
\* them.  The first is started without -join and leads alone; the second is
\* started with -join naming the first.  main parses the flags, opens the
\* Store and starts the HTTP service, whose handler serves GET, POST and
\* DELETE of a key; clients write through the first node.
Unparsed == "unparsed"
NoJoin == ""

NoReq == [pc |-> "idle", method |-> "none", node |-> Bootstrap, key |-> EmptyString,
          value |-> EmptyString, n0 |-> 0, len0 |-> 0, m0 |-> [n \in Nodes |-> EmptyMap],
          status |-> 0]

MainInit ==
    /\ joinAddr = [n \in Nodes |-> Unparsed]
    /\ req = NoReq

\* main: fs.Parse(os.Args[1:]); the value of -join is dropped (_ = joinAddr).
MainParse(n, addr) ==
    /\ ~opened[n]
    /\ joinAddr[n] = Unparsed
    /\ addr = NoJoin <=> n = Bootstrap
    /\ addr # NoJoin => opened[addr] /\ raftState[addr] = "Leader"
    /\ joinAddr' = [joinAddr EXCEPT ![n] = addr]
    /\ UNCHANGED req
    /\ UNCHANGED <<fsmVars, openVars, clusterVars, applyVars, mutexVars, readVars>>

\* main: s.Open(), httpd.New(*httpAddr, s), h.Start(); then select {}.
MainOpen(n) ==
    /\ joinAddr[n] # Unparsed
    /\ TrioOpen(n)

MainNext ==
    \/ \E n \in Pair, addr \in Pair \cup {NoJoin} : MainParse(n, addr)
    \/ \E n \in Pair : MainOpen(n)
    \/ \E n \in Pair : TrioTimeout(n)
    \/ \E n \in Pair : BecomeLeader(n, {})
    \/ \E n \in Pair : AdvanceCommit(n)
    \/ \E n \in Pair : ApplyCommitted(n)
    \/ \E n \in Pair, k \in ClusterKeys, v \in ClusterValues : JoinSet(n, k, v)
    \/ WriteSubmit
    \/ WriteReturn
    \/ \E n \in Pair, k \in ClusterKeys : JoinGet(n, k)

\* SpecHttp: the HTTP service in front of the Store, one request at a time.
\* Two nodes are started as in SpecMain; clients send POST (a body with one
\* key) and DELETE requests for a non-empty key to either node.
HttpOthersUnchanged ==
    UNCHANGED <<fsmVars, openVars, clusterVars, applyVars, mutexVars, readVars>>

\* ServeHTTP is entered: method and key are read from the request.  n0,
\* len0 and m0 note the calls made so far, the node's last log index and
\* the maps as they are when the request arrives.
HttpReceive(n, method, key, value) ==
    /\ opened[n]
    /\ req.pc \in {"idle", "done"}
    /\ call.pc \in {"idle", "done"}
    /\ call.n < CallBound
    /\ req' = [pc |-> "serving", method |-> method, node |-> n, key |-> key,
               value |-> IF method = "POST" THEN value ELSE EmptyString,
               n0 |-> call.n, len0 |-> LastIndex(n), m0 |-> m, status |-> 0]
    /\ UNCHANGED joinAddr
    /\ HttpOthersUnchanged

\* case "POST": for k, v := range m { s.store.Set(k, v) }
HttpPostSet ==
    /\ req.pc = "serving" /\ req.method = "POST"
    /\ call.n = req.n0
    /\ SetBegin(req.node, req.key, req.value)

\* case "DELETE": if err := s.store.Delete(k); err != nil
HttpDeleteFirst ==
    /\ req.pc = "serving" /\ req.method = "DELETE"
    /\ call.n = req.n0
    /\ DeleteBegin(req.node, req.key)

\* case "DELETE": the first Delete returned nil; s.store.Delete(k) again.
HttpDeleteSecond ==
    /\ req.pc = "serving" /\ req.method = "DELETE"
    /\ call.n = req.n0 + 1
    /\ call.pc = "done" /\ call.res = "nil"
    /\ DeleteBegin(req.node, req.key)

\* The handler returns: 500 when Set or the first Delete returned an error,
\* 200 otherwise; what the second Delete returned is dropped.
HttpRespond ==
    /\ req.pc = "serving"
    /\ call.pc = "done"
    /\ \/ /\ call.n = req.n0 + 1 /\ call.res # "nil"
          /\ req' = [req EXCEPT !.pc = "done", !.status = 500]
       \/ /\ call.n = req.n0 + 1 /\ call.res = "nil" /\ req.method = "POST"
          /\ req' = [req EXCEPT !.pc = "done", !.status = 200]
       \/ /\ call.n = req.n0 + 2 /\ req.method = "DELETE"
          /\ req' = [req EXCEPT !.pc = "done", !.status = 200]
    /\ UNCHANGED joinAddr
    /\ HttpOthersUnchanged

HttpNext ==
    \/ \E n \in Pair, addr \in Pair \cup {NoJoin} : MainParse(n, addr)
    \/ \E n \in Pair : MainOpen(n)
    \/ \E n \in Pair : TrioTimeout(n)
    \/ \E n \in Pair : BecomeLeader(n, {})
    \/ \E n \in Pair : AdvanceCommit(n)
    \/ \E n \in Pair : ApplyCommitted(n)
    \/ \E n \in Pair, k \in ClusterKeys, v \in ClusterValues :
          \E method \in {"POST", "DELETE"} : HttpReceive(n, method, k, v)
    \/ HttpPostSet
    \/ HttpDeleteFirst
    \/ HttpDeleteSecond
    \/ WriteSubmit
    \/ WriteEnqueueTimeout
    \/ WriteReturn
    \/ HttpRespond

vars == <<fsmVars, openVars, clusterVars, applyVars, mutexVars, mainVars, readVars>>

Init == FsmInit /\ OpenInit /\ ClusterInit /\ ApplyInit /\ MutexInit /\ MainInit

Spec == Init /\ [][Next]_vars

SpecFsm == Init /\ [][FsmNext]_vars

SpecOpen == Init /\ [][OpenNext]_vars

SpecApply == Init /\ [][ApplyNext]_vars

SpecMutex == Init /\ [][MutexNext]_vars

SpecSingle == Init /\ [][SingleNext]_vars

\* Raft's timers fire and its goroutines run: a timeout that stays due
\* happens, and an election that stays won is concluded.
SpecSingleLive ==
    /\ Init
    /\ [][SingleLiveNext]_vars
    /\ WF_vars(Timeout(Bootstrap))
    /\ WF_vars(BecomeLeader(Bootstrap, {}))

\* The steps Raft's timers and goroutines take by themselves on the running
\* nodes, and the returns of the calls.
TrioProgress ==
    \/ \E n \in Nodes : TrioTimeout(n)
    \/ \E n \in Nodes, Q \in SUBSET Nodes : BecomeLeader(n, Q)
    \/ \E i \in Nodes, j \in Nodes : Replicate(i, j)
    \/ \E n \in Nodes : AdvanceCommit(n)
    \/ \E n \in Nodes : ApplyCommitted(n)
    \/ WriteSubmit
    \/ WriteReturn
    \/ JoinReturn

\* Raft's timers fire and its goroutines run: as long as a timeout is due, an
\* election is won, an AppendEntries has something to bring, an entry can be
\* committed or applied, or a call can return, one of these steps is taken.
SpecTrio == Init /\ [][TrioNext]_vars /\ WF_vars(TrioProgress)

SpecMain == Init /\ [][MainNext]_vars /\ WF_vars(TrioProgress)

SpecRestart == Init /\ [][RestartNext]_vars /\ WF_vars(TrioProgress)

SpecHttp == Init /\ [][HttpNext]_vars

SpecJoin == Init /\ [][JoinNext]_vars /\ WF_vars(TrioProgress)

(***************************************************************************)
(* Claims settled under Spec.                                              *)
(***************************************************************************)

IsPrefix(s, t) == Len(s) <= Len(t) /\ SubSeq(t, 1, Len(s)) = s

\* C1: for any two running nodes, the sequence of commands one has applied
\* to its map is a prefix of the sequence the other has applied, and two
\* nodes that have applied the same number of commands hold equal maps.
C1_SameOrderSameMap ==
    \A a \in Nodes, b \in Nodes :
        (opened[a] /\ opened[b]) =>
            /\ IsPrefix(applied[a], applied[b]) \/ IsPrefix(applied[b], applied[a])
            /\ Len(applied[a]) = Len(applied[b]) => m[a] = m[b]

\* Two running nodes that have applied the same command hold the same
\* non-empty map, and one of them has a snapshot of it.
C1_Witness ==
    /\ opened["n1"] /\ opened["n2"]
    /\ applied["n1"] # <<>>
    /\ applied["n1"] = applied["n2"]
    /\ m["n1"] # EmptyMap
    /\ \E n \in Nodes : snap[n].has /\ lastApplied[n] = snap[n].index

\* The commands among the first I committed entries, decoded, in index order.
RECURSIVE CommittedCommands(_)
CommittedCommands(I) ==
    IF I = 0 THEN <<>>
    ELSE IF committed[I].type = "cmd"
    THEN Append(CommittedCommands(I - 1), UnmarshalCommand(committed[I].data).c)
    ELSE CommittedCommands(I - 1)

\* For each key the last command on it decides: the key is present exactly
\* when that command is a set, with that command's value.
LastWriterMap(cs) ==
    LET Last(k) == Max({i \in 1..Len(cs) : cs[i].Key = k})
        Written == {cs[i].Key : i \in 1..Len(cs)}
    IN  [k \in {x \in Written : cs[Last(x)].Op = <<"set">>} |-> cs[Last(k)].Value]

\* C2: on every running node the map equals the fold, in index order over
\* the empty map, of the committed set/delete commands up to the index the
\* node has applied: per key, the last command decides presence and value.
C2_MapIsFold ==
    \A n \in Nodes :
        opened[n] =>
            /\ lastApplied[n] <= Len(committed)
            /\ m[n] = LastWriterMap(CommittedCommands(lastApplied[n]))

\* A node has applied a set and then a delete of the same key.
C2_Witness ==
    \E n \in Nodes :
        /\ opened[n]
        /\ lastApplied[n] = MaxLog
        /\ LET cs == CommittedCommands(lastApplied[n])
           IN  /\ Len(cs) = 2
               /\ cs[1].Op = <<"set">> /\ cs[2].Op = <<"delete">>
               /\ cs[1].Key = cs[2].Key
        /\ m[n] = EmptyMap

\* The step is the start of a write attempt on node n.
WriteAttempt(n) ==
    /\ call'.n = call.n + 1
    /\ call'.op \in {"set", "delete"}
    /\ call'.node = n

\* C3: a write attempt (Set or Delete) on a node whose Raft state is not
\* Leader returns the not-leader error, appends no entry to the log of any
\* node and leaves the map of every node unchanged.
C3_NotLeaderRejected ==
    [][\A n \in Nodes :
          (WriteAttempt(n) /\ raftState[n] # "Leader") =>
              /\ call'.pc = "done"
              /\ call'.res = "not leader"
              /\ log' = log
              /\ m' = m]_vars

\* N1 is the leader of a two-node cluster and a Set on the follower N2 has
\* returned the not-leader error.
C3_Witness ==
    /\ call.pc = "done" /\ call.op = "set" /\ call.res = "not leader"
    /\ call.node = "n2"
    /\ opened["n1"] /\ opened["n2"]
    /\ raftState["n1"] = "Leader" /\ raftState["n2"] = "Follower"
    /\ "n2" \in Peers("n1")

\* The entry the call waits for is committed.
IsCommitted(c) ==
    /\ c.idx \in 1..Len(committed)
    /\ committed[c.idx] = RecordOf(c)

\* C4: Delete has the contract of Set. Called on a node that is not the
\* leader it returns the not-leader error, never nil; on the leader the
\* record it hands to the log is a delete command for its key, and it
\* returns nil only once that command is committed.
C4_DeleteContract ==
    [][/\ \A n \in Nodes :
            (WriteAttempt(n) /\ call'.op = "delete" /\ raftState[n] # "Leader") =>
                (call'.pc = "done" /\ call'.res = "not leader")
       /\ (call.op = "delete" /\ call.pc = "checked" /\ call'.fut = "pending") =>
              /\ raftState[call.node] = "Leader"
              /\ log'[call.node] = Append(log[call.node], RecordOf(call'))
              /\ UnmarshalCommand(RecordOf(call').data).c.Op = <<"delete">>
       /\ (call.op = "delete" /\ call.pc = "waiting" /\ call'.pc = "done"
           /\ call'.res = "nil") =>
              IsCommitted(call)]_vars

\* A Delete on the leader has returned nil and the key it removed, which an
\* earlier Set had written, is gone from the leader's map.
C4_Witness ==
    /\ call.pc = "done" /\ call.op = "delete" /\ call.res = "nil"
    /\ call.fut = "live"
    /\ raftState[call.node] = "Leader"
    /\ \E i \in 1..Len(committed) :
          /\ committed[i].type = "cmd"
          /\ UnmarshalCommand(committed[i].data).c = SetCommand(call.key, <<"a">>)
    /\ call.key \notin DOMAIN m[call.node]

\* C5: Set returns nil only if its command has been committed to the log
\* and applied on the node it was called on; whenever the command is not
\* committed at the moment Set returns, Set returns an error.
C5_SetNilOnlyCommitted ==
    [][(call.op = "set" /\ call.pc = "waiting" /\ call'.pc = "done") =>
          /\ call'.res = "nil" =>
                /\ IsCommitted(call)
                /\ lastApplied[call.node] >= call.idx
                /\ \E i \in 1..Len(applied[call.node]) :
                      applied[call.node][i] = RecordOf(call).data
          /\ ~IsCommitted(call) => call'.res # "nil"]_vars

\* A Set on the leader of a two-node cluster has returned nil.
C5_Witness ==
    /\ call.pc = "done" /\ call.op = "set" /\ call.res = "nil"
    /\ call.fut = "live"
    /\ Peers(call.node) # {}
    /\ Get(m[call.node], call.key) = call.value

\* C6: once Set(k, v) has returned nil on a node, Get(k) on that node
\* returns v for as long as no later command on k is applied there (every
\* later command comes from a later call, which replaces the call record).
C6_ReadYourWrite ==
    (call.pc = "done" /\ call.op = "set" /\ call.res = "nil" /\ call.fut = "live") =>
        Get(m[call.node], call.key) = call.value

\* C8: a node reopened on a peer list of two or more members does not get
\* single-node mode, whatever enableSingle it passes, and becomes leader
\* only with the votes of a majority of its persisted peers, itself included.
C8_NoLoneLeaderOnRestart ==
    [][\A n \in Nodes :
          /\ (~opened[n] /\ opened'[n] /\ Cardinality(peersFile[n]) >= 2) =>
                ~enableSingleNode'[n]
          /\ (raftState[n] # "Leader" /\ raftState'[n] = "Leader"
              /\ Cardinality(peersFile[n]) >= 2) =>
                /\ votes'[n] \subseteq peersFile[n]
                /\ 2 * Cardinality(votes'[n]) > Cardinality(peersFile[n])]_vars

\* A node that listed two peers crashed, was reopened with enableSingle set,
\* and has become leader again with the vote of its peer.
C8_Witness ==
    \E n \in Nodes :
        /\ crashes = 1
        /\ opened[n] /\ enableSingleArg[n]
        /\ Cardinality(peersFile[n]) = 2
        /\ raftState[n] = "Leader"
        /\ currentTerm[n] = MaxTerm
        /\ votes[n] = peersFile[n]

\* Node n's step hands the entry after lastApplied[n] to the state machine:
\* a command goes through fsm.Apply once, any other entry leaves the map.
AppliesNext(n) ==
    LET i == lastApplied[n] + 1
    IN  /\ lastApplied'[n] = i
        /\ i <= commitIndex[n]
        /\ i <= Len(committed)
        /\ EntryAt(n, i) = committed[i]
        /\ IF committed[i].type = "cmd"
           THEN /\ applied'[n] = Append(applied[n], committed[i].data)
                /\ m'[n] = fsmApply(m[n], committed[i].data).m
           ELSE /\ applied'[n] = applied[n]
                /\ m'[n] = m[n]

\* Node n's step restores a snapshot that is ahead of what it has applied.
RestoresSnapshot(n) ==
    /\ snap'[n].has
    /\ lastApplied'[n] = snap'[n].index
    /\ lastApplied'[n] > lastApplied[n]
    /\ m'[n] = fsmRestore(m[n], snap'[n].data).m

\* C12 as stated: within one run of a node, no committed command lies
\* below the index the run starts from, and the index applied moves only by
\* Apply being invoked on the next committed entry, so that no committed
\* entry is skipped.
C12_ApplyEveryEntryOnce ==
    [][\A n \in Nodes :
          /\ (~opened[n] /\ opened'[n]) =>
                CommittedCommands(lastApplied'[n]) = <<>>
          /\ (opened[n] /\ opened'[n] /\ lastApplied'[n] # lastApplied[n]) =>
                AppliesNext(n)]_vars

\* C12, amended: within one run of a node, Apply is invoked once for each
\* committed entry above the snapshot the node last restored, in strictly
\* increasing index order and never on an uncommitted entry; the index
\* applied moves otherwise only when a snapshot ahead of it is restored,
\* and the map changes only in these two ways.
C12_ApplyInOrder ==
    [][\A n \in Nodes :
          /\ (~opened[n] /\ opened'[n]) =>
                lastApplied'[n] = snap[n].index
          /\ (opened[n] /\ opened'[n] /\ lastApplied'[n] # lastApplied[n]) =>
                (AppliesNext(n) \/ RestoresSnapshot(n))
          /\ (opened[n] /\ opened'[n] /\ lastApplied'[n] = lastApplied[n]) =>
                (m'[n] = m[n] /\ applied'[n] = applied[n])]_vars

\* Both nodes hold the same snapshot, which one of them was sent, and a
\* node has applied an entry beyond it.
C12_Witness ==
    /\ opened["n1"] /\ opened["n2"]
    /\ snap["n1"].has
    /\ snap["n2"] = snap["n1"]
    /\ \E n \in Nodes : lastApplied[n] > snap[n].index

\* A Join is invoked in this step.
JoinInvoked == call'.op = "join" /\ call'.n = call.n + 1

\* C22: a Join invoked on a node whose state is not Leader gets the error
\* of AddPeer and appends nothing: the log and the persisted peers of every
\* node are as before; the error stays until the call returns it (or the
\* process dies), and that step changes no log and no peers either.  So
\* Join returns nil only when it was invoked on the leader.
C22_JoinOnlyOnLeader ==
    [][/\ (JoinInvoked /\ raftState[call'.node] # "Leader") =>
             /\ call'.pc = "waiting" /\ call'.fut = "ErrNotLeader"
             /\ peersFile' = peersFile /\ log' = log
       /\ (call.op = "join" /\ call.pc = "waiting" /\ call.fut = "ErrNotLeader"
           /\ call' # call) =>
             /\ call'.pc = "done" /\ call'.op = "join"
             /\ call'.res \in {"ErrNotLeader", "crashed"}
             /\ peersFile' = peersFile /\ log' = log]_vars

\* A Join on a running follower has returned the error; the node it named
\* is running and is no peer of any node.
C22_Witness ==
    /\ call.pc = "done" /\ call.op = "join" /\ call.res = "ErrNotLeader"
    /\ opened[call.node] /\ raftState[call.node] = "Follower"
    /\ \E a \in Pair \ {call.node} :
          opened[a] /\ \A n \in Pair : a \notin peersFile[n]

\* The write call gets the timeout error of raft.Apply in this step.
TimesOut ==
    /\ call.pc = "checked" /\ call'.pc = "waiting"
    /\ call'.fut = "ErrEnqueueTimeout"

\* Leader n appends a command to its log in this step.
AppendsCommand(n) ==
    /\ raftState[n] = "Leader" /\ raftState'[n] = "Leader"
    /\ logBase'[n] = logBase[n]
    /\ Len(log'[n]) = Len(log[n]) + 1
    /\ log'[n][Len(log'[n])].type = "cmd"

HoldsCommitted(n, i) ==
    /\ i <= Len(committed)
    /\ logBase[n] < i /\ i <= LastIndex(n)
    /\ EntryAt(n, i) = committed[i]

NotJoined(n) == peersFile[n] = {}

\* C37: a node that runs with enableSingle false and has no peer list (none
\* in its RaftDir when it was opened, and not since added by a leader's
\* Join) is not Leader, and a Set or Delete attempted on it returns the
\* not-leader error and changes no log and no map.
C37_NoLeaderBeforeJoin ==
    /\ [](\A n \in Nodes :
            (opened[n] /\ ~enableSingleArg[n] /\ NotJoined(n)) =>
                raftState[n] # "Leader")
    /\ [][\A n \in Nodes :
            (WriteAttempt(n) /\ ~enableSingleArg[n] /\ NotJoined(n)) =>
                /\ call'.pc = "done"
                /\ call'.res = "not leader"
                /\ log' = log
                /\ m' = m]_vars

\* The second node was opened with enableSingle false on an empty RaftDir
\* while the first leads; it has not been joined, and a Set on it has
\* returned the not-leader error.
C37_Witness ==
    \E n \in Pair \ {Bootstrap} :
        /\ raftState[Bootstrap] = "Leader"
        /\ opened[n] /\ ~enableSingleArg[n]
        /\ NotJoined(n) /\ log[n] = <<>> /\ ~snap[n].has
        /\ \A q \in Nodes \ {n} : n \notin peersFile[q]
        /\ raftState[n] = "Follower"
        /\ call.pc = "done" /\ call.op = "set" /\ call.node = n
        /\ call.res = "not leader"

(***************************************************************************)
(* Claims settled under SpecFsm.                                           *)
(***************************************************************************)

\* C9: snapshot round trip. Once Restore has been fed the bytes Persist
\* wrote for the handle Snapshot returned, the map equals the map M that
\* Snapshot cloned: same keys, same values, keys with an empty value included.
C9_SnapshotRoundTrip == frestored => fm = fsrc

\* A restore that brought back a key whose value is the empty string, over a
\* map that had changed since the snapshot.
C9_Witness ==
    /\ frestored
    /\ fops = MaxFsmOps
    /\ \E k \in DOMAIN fm : fm[k] = EmptyString

\* C10: codec round trip. The command fsm.Apply decodes from the record is
\* the command Set/Delete built, for any key and any value.
C10_CodecRoundTrip == fcmd # NoCommand => fdec = fcmd

\* C24: applied commands are idempotent.  For the map f.m as it is at any
\* time, and every key k and value v, set(k, v) applied twice gives the map
\* it gives applied once, and so does delete(k); and when fsm.Apply is
\* handed the record of the same command twice in succession, the second
\* time leaves the map as it was.
C24_Idempotent ==
    /\ [](\A k \in GoStrings :
            /\ applyDelete(applyDelete(fm, k), k) = applyDelete(fm, k)
            /\ \A v \in GoStrings :
                  applySet(applySet(fm, k, v), k, v) = applySet(fm, k, v))
    /\ [][frepeat' => fm' = fm]_vars

\* A set that changed the map was applied, and then the same set again.
C24_Witness ==
    /\ frepeat
    /\ fops = 2
    /\ fcmd.Op = <<"set">>
    /\ fcmd.Key \in DOMAIN fm /\ fm[fcmd.Key] = fcmd.Value
    /\ fcmd.Value # EmptyString

\* C39 as stated: every execution of Persist calls exactly one of sink.Close
\* and sink.Cancel on its sink.
C39_ExactlyOneOfCloseCancel ==
    fsink.used => (fsink.closed # fsink.cancelled)

\* C39, amended: every execution of Persist calls Close or Cancel; Close is
\* called exactly when the write succeeded, so never after a failed write;
\* Cancel is called exactly when Persist returns an error, which after a
\* failed Close means on a sink that Close was already called on; a Persist
\* that returns nil has called Close alone.
C39_CloseUnlessWriteFailedCancelOnError ==
    /\ \A wf \in BOOLEAN, cf \in BOOLEAN :
          LET p == Persist(fm, wf, cf)
          IN  /\ p.closed \/ p.cancelled
              /\ p.closed <=> ~wf
              /\ p.cancelled <=> p.err
              /\ (p.closed /\ p.cancelled) <=> (~wf /\ cf)
    /\ fsink.used =>
          /\ fsink.closed \/ fsink.cancelled
          /\ fsink.cancelled <=> fsink.err
          /\ fsink.written = NoData <=> ~fsink.closed
          /\ ~fsink.err => fsink.closed /\ ~fsink.cancelled

\* A Persist whose Write failed: nothing was written, Close was not called
\* and the sink was cancelled.
C39_Witness ==
    /\ fsink.used
    /\ fsink.err
    /\ fsink.written = NoData
    /\ ~fsink.closed
    /\ fsink.cancelled
    /\ fsnap.held

\* Maps a and b agree on every key but k: the same keys are present, with
\* the same values.
SameButFor(a, b, k) ==
    /\ DOMAIN a \ {k} = DOMAIN b \ {k}
    /\ \A x \in DOMAIN a \ {k} : a[x] = b[x]

\* C35: for the map f.m as it is at any time and every key k and value v,
\* set(k, v) gives a map that holds v under k and agrees with f.m on every
\* other key, and delete(k) gives a map without k that agrees with f.m on
\* every other key, f.m itself when k was absent; and the step in which
\* fsm.Apply applies a decoded command changes the map in just that way.
C35_FrameEffect ==
    /\ [](\A k \in GoStrings :
            /\ k \notin DOMAIN applyDelete(fm, k)
            /\ SameButFor(applyDelete(fm, k), fm, k)
            /\ k \notin DOMAIN fm => applyDelete(fm, k) = fm
            /\ \A v \in GoStrings :
                  /\ k \in DOMAIN applySet(fm, k, v)
                  /\ applySet(fm, k, v)[k] = v
                  /\ SameButFor(applySet(fm, k, v), fm, k))
    /\ [][fops' = fops + 1 =>
            /\ SameButFor(fm', fm, fdec'.Key)
            /\ fdec'.Op = <<"set">> =>
                  fdec'.Key \in DOMAIN fm' /\ fm'[fdec'.Key] = fdec'.Value
            /\ fdec'.Op = <<"delete">> => fdec'.Key \notin DOMAIN fm']_vars

\* A set of a second key was applied: the map holds both keys.
C35_Witness ==
    /\ fops = 2
    /\ fdec.Op = <<"set">>
    /\ Cardinality(DOMAIN fm) = 2
    /\ fm[fdec.Key] = fdec.Value

\* C28: when writing and closing succeed Persist has written the encoding of
\* the store, closed the sink, not cancelled it, and returns nil; when Write
\* or Close fails it cancels the sink and returns the error; and the map is
\* never restored from the sink of a Persist that returned an error.
C28_PersistClosesOrCancels ==
    /\ [](\A wf \in BOOLEAN, cf \in BOOLEAN :
            LET p == Persist(fm, wf, cf)
            IN  /\ p.err = (wf \/ cf)
                /\ ~p.err => p.closed /\ ~p.cancelled /\ p.written = MarshalMap(fm)
                /\ p.err => p.cancelled)
    /\ [](fsink.used =>
            /\ ~fsink.err => fsink.closed /\ ~fsink.cancelled
                             /\ fsink.written = MarshalMap(fsnap.store)
            /\ fsink.err => fsink.cancelled /\ ~ENABLED FsmRestore)
    /\ [][frestored' /\ ~frestored => fsink.used /\ ~fsink.err]_vars

\* A Persist has failed after it had written the bytes (Close failed): the
\* sink is cancelled and no Restore from it is possible.
C28_Witness ==
    /\ fsink.used
    /\ fsink.err
    /\ fsink.closed
    /\ fsink.cancelled
    /\ fsink.written = MarshalMap(fsnap.store)
    /\ ~ENABLED FsmRestore

(***************************************************************************)
(* Claims settled under SpecSingle.                                        *)
(***************************************************************************)

\* The step is a Get call, which returns within the step.
GetStep == call'.op = "get" /\ call'.n = call.n + 1

\* C13: Get(key) on a node in any Raft role returns the value stored for
\* key in that node's map, the empty string when the key is absent, and a
\* nil error.
C13_GetReturnsStored ==
    [][GetStep =>
          LET n == call'.node
              k == call'.key
          IN  /\ call'.pc = "done"
              /\ call'.res = "nil"
              /\ call'.state = raftState[n]
              /\ k \in DOMAIN m[n] => call'.value = m[n][k]
              /\ k \notin DOMAIN m[n] => call'.value = EmptyString]_vars

\* A Get on a node that is not the leader returned a stored value: the node
\* was reopened on a snapshot and is a follower or a candidate.
C13_Witness ==
    /\ call.op = "get" /\ call.pc = "done"
    /\ call.state \in {"Follower", "Candidate"}
    /\ call.value = <<"a">>
    /\ call.key \in DOMAIN m[call.node]

\* C14: a Get call appends no log entry, hands nothing to Raft, and leaves
\* the map, the log, the snapshot, the term and the Raft state of every node
\* unchanged.
C14_GetChangesNothing ==
    [][GetStep => UNCHANGED <<diskVars, procVars, histVars>>]_vars

\* A Get was served by the leader while entries were in its log.
C14_Witness ==
    /\ call.op = "get" /\ call.pc = "done"
    /\ call.state = "Leader"
    /\ Len(log[call.node]) >= 2
    /\ commitIndex[call.node] < LastIndex(call.node)

\* C15: a node opened with enableSingle = true on an empty RaftDir, with no
\* peers, eventually becomes Leader (of a one-member cluster).
C15_SingleNodeLeads ==
    (/\ opened[Bootstrap] /\ enableSingleArg[Bootstrap]
     /\ peersFile[Bootstrap] = {} /\ currentTerm[Bootstrap] = 0
     /\ log[Bootstrap] = <<>> /\ ~snap[Bootstrap].has)
        ~> (raftState[Bootstrap] = "Leader" /\ votes[Bootstrap] = {Bootstrap})

\* The node opened with enableSingle leads a cluster of itself alone.
C15_Witness ==
    /\ opened[Bootstrap] /\ enableSingleArg[Bootstrap]
    /\ raftState[Bootstrap] = "Leader"
    /\ Peers(Bootstrap) = {}
    /\ votes[Bootstrap] = {Bootstrap}

\* C16: on a single-node leader, a Get(k) that follows a Set(k, v) that
\* returned nil returns v, and a Get(k) that follows a Delete(k) that
\* returned nil returns the empty string.
C16_SetGetDeleteGet ==
    [][(/\ GetStep
        /\ call.pc = "done" /\ call.op \in {"set", "delete"}
        /\ call.res = "nil" /\ call.fut = "live"
        /\ call'.node = call.node /\ call'.key = call.key
        /\ raftState[call.node] = "Leader" /\ Peers(call.node) = {}) =>
           call'.value = (IF call.op = "set" THEN call.value ELSE EmptyString)]_vars

\* C19: a node took a snapshot at index I, was stopped, lost its log file
\* but kept its snapshots and peers.json, and was reopened: as long as no
\* command is applied after the reopening, Get(k) returns for every key k
\* the value k had after the commands with index <= I.
C19_SnapshotRecovery ==
    [][(/\ GetStep
        /\ stopped[call'.node].lost
        /\ applied[call'.node] = snap[call'.node].hist) =>
           LET n == call'.node
               atI == LastWriterMap(CommittedCommands(snap[n].index))
           IN  /\ lastApplied[n] >= snap[n].index
               /\ call'.value = Get(atI, call'.key)]_vars

\* The reopened node, its log gone and nothing appended since, returned
\* the value a Set before the snapshot had written.
C19_Witness ==
    /\ call.op = "get" /\ call.pc = "done"
    /\ stopped[call.node].lost
    /\ opened[call.node]
    /\ log[call.node] = <<>>
    /\ call.value = <<"a">>

\* C20: a node with a snapshot at index I and log entries beyond I was
\* stopped and reopened.  At index I its map is what Restore makes of the
\* newest snapshot; from there it applies again, in order, the commands it
\* had applied; and when it is back at the index it had applied when it
\* stopped, its map is the map it held then.
C20_RestartReplay ==
    \A n \in Nodes :
        (opened[n] /\ stopped[n].valid /\ ~stopped[n].lost) =>
            /\ (snap[n].has /\ lastApplied[n] = snap[n].index) =>
                   m[n] = DecodeMembers(snap[n].data.members, EmptyMap)
            /\ lastApplied[n] >= snap[n].index
            /\ lastApplied[n] <= stopped[n].at =>
                   IsPrefix(applied[n], stopped[n].hist)
            /\ lastApplied[n] = stopped[n].at =>
                   (m[n] = stopped[n].m /\ applied[n] = stopped[n].hist)

\* The node was stopped with a snapshot that holds a key and a command
\* applied beyond it, and has replayed up to where it was.
C20_Witness ==
    \E n \in Nodes :
        /\ opened[n] /\ stopped[n].valid /\ ~stopped[n].lost
        /\ snap[n].has /\ snap[n].index < stopped[n].at
        /\ snap[n].hist # <<>>
        /\ Len(stopped[n].hist) > Len(snap[n].hist)
        /\ lastApplied[n] = stopped[n].at

\* The RaftDir of node n exists and is empty: no peers.json, no log, no
\* snapshot, no stored term.
EmptyRaftDir(n) ==
    /\ peersFile[n] = {}
    /\ log[n] = <<>>
    /\ ~snap[n].has
    /\ currentTerm[n] = 0

\* C30: on a store that is not open and whose RaftDir is empty, Open returns
\* nil with either value of enableSingle when no step of the environment
\* fails, and the step that opens it leaves the node a Follower with an
\* empty map.
C30_OpenFreshStore ==
    /\ [](\A es \in BOOLEAN :
            (~opened[Bootstrap] /\ EmptyRaftDir(Bootstrap)) =>
                /\ Open(PeersFileOf(Bootstrap), es, "none").err = "nil"
                /\ Open(PeersFileOf(Bootstrap), es, "none").raft
                /\ ENABLED StoreOpen(Bootstrap, es))
    /\ [][(~opened[Bootstrap] /\ EmptyRaftDir(Bootstrap) /\ opened'[Bootstrap]) =>
             /\ raftState'[Bootstrap] = "Follower"
             /\ m'[Bootstrap] = New
             /\ log'[Bootstrap] = <<>>]_vars

\* The store of Test_StoreOpen: opened with enableSingle false on an empty
\* RaftDir, running as a Follower.
C30_Witness ==
    /\ opened[Bootstrap]
    /\ ~enableSingleArg[Bootstrap]
    /\ EmptyRaftDir(Bootstrap)
    /\ raftState[Bootstrap] = "Follower"
    /\ crashes = 0

(***************************************************************************)
(* Claims settled under SpecApply.                                         *)
(***************************************************************************)

\* The op a record carries: that of its last "op" member, decoded; none
\* when the payload is no JSON object or has no such member.
RECURSIVE OpOfRecord(_)
OpOfRecord(d) ==
    IF d.kind # "object" \/ d.members = <<>> THEN <<"none">>
    ELSE LET last == d.members[Len(d.members)]
         IN  IF last.name = <<"op">> THEN DecodeString(last.val)
             ELSE OpOfRecord(JSONObject(SubSeq(d.members, 1, Len(d.members) - 1)))

BadRecord(d) == OpOfRecord(d) \notin {<<"set">>, <<"delete">>}

\* C11: when Apply is handed an entry whose payload does not decode, or
\* whose op is neither "set" nor "delete" (a record without op included),
\* the node halts: the map is not modified by that entry, and once halted
\* no later entry is applied and the map never changes again.
C11_BadRecordHalts ==
    [][/\ (~ahalted /\ anext <= Len(alog) /\ BadRecord(alog[anext])
           /\ <<anext, am, ahalted>>' # <<anext, am, ahalted>>) =>
              (ahalted' /\ am' = am /\ anext' = anext)
       /\ ahalted =>
              (ahalted' /\ am' = am /\ anext' = anext)]_vars

\* The node halted on the second entry, with the first applied to its map
\* and a third entry committed after the halt left unapplied.
C11_Witness ==
    /\ ahalted
    /\ anext = 2
    /\ am # EmptyMap
    /\ Len(alog) = MaxRecords

(***************************************************************************)
(* Claims settled under SpecOpen.                                          *)
(***************************************************************************)

\* The number of entries of the persisted peer list; a missing or empty
\* file, and the JSON value null, hold none.
PersistedEntries(file) == IF file.kind = "list" THEN Len(file.peers) ELSE 0

PeersReadable(file) == file.kind \in {"missing", "empty", "null", "list"}

\* C7: Open enables single-node mode if and only if enableSingle is true and
\* the persisted peer list has at most one entry; in every other case
\* (more peers, the flag unset, a peer list that cannot be read) it stays
\* disabled, in the config and in the Raft instance the Store runs.
C7_SingleNodeIff ==
    olast.called =>
        /\ olast.single <=> (olast.enable /\ PeersReadable(ofile)
                                /\ PersistedEntries(ofile) <= 1)
        /\ ostore.single <=> (ostore.raft /\ olast.single)

\* Open was called with enableSingle on a peer list of two entries and
\* returned nil.
C7_Witness ==
    /\ olast.called /\ olast.enable /\ olast.err = "nil"
    /\ PersistedEntries(ofile) = 2
    /\ ostore.raft

\* The steps of Open the claim names: resolving and binding the Raft
\* address, opening the snapshot store, opening the log and stable store.
NamedFailures == {"resolve", "transport", "snapshots", "boltdb"}

\* C31: whenever peers.json cannot be read or parsed, or resolving or
\* binding the address or opening the snapshot store or the log store
\* fails, Open returns an error and stores no Raft instance; a Store whose
\* last Open returned an error runs no Raft instance.
C31_OpenFailsCleanly ==
    /\ [](\A es \in BOOLEAN, fails \in OpenFailures :
            (~PeersReadable(ofile) \/ fails \in NamedFailures) =>
                LET o == Open(ofile, es, fails)
                IN  o.err # "nil" /\ ~o.raft)
    /\ [][\A es \in BOOLEAN, fails \in OpenFailures :
            (OpenCall(es, fails) /\ (~PeersReadable(ofile) \/ fails \in NamedFailures)) =>
                olast'.err # "nil" /\ ~ostore'.raft]_vars
    /\ [](olast.called /\ olast.err # "nil" => ~ostore.raft)

\* Open was called on a readable peer list, the log store could not be
\* opened, and the Store runs no Raft instance.
C31_Witness ==
    /\ olast.called
    /\ PeersReadable(ofile)
    /\ olast.err = "boltdb"
    /\ ~ostore.raft

\* C36: an Open called on a Store whose Raft instance runs returns an error
\* and leaves the instance as it was.
C36_SecondOpenFails ==
    [][(ostore.raft /\ oopens' = oopens + 1) =>
          /\ ostore'.again \notin {"nil", "blocked"}
          /\ ostore'.raft
          /\ ostore'.single = ostore.single]_vars

(***************************************************************************)
(* Claims settled under SpecTrio.                                          *)
(***************************************************************************)

\* A Set(k, v) has returned nil.
SetReturnedNil(k, v) ==
    /\ call.pc = "done" /\ call.op = "set" /\ call.res = "nil"
    /\ call.key = k /\ call.value = v

\* Nothing is left for Raft to do and no call is left to return.  Terms,
\* logs and calls are bounded and every step of TrioProgress advances one of
\* them, so under SpecTrio's fairness such a state is reached whenever the
\* client and the failures pause: what holds "eventually" is what holds there.
Settled == ~ENABLED TrioProgress

\* C17: in the formed cluster of three, with no failure, after a Set(k, v)
\* has returned nil on the leader, eventually (once the cluster has settled)
\* Get(k) returns v on each of the three nodes.  The cluster writes one
\* value, so no later write changes it.
C17_WritePropagation ==
    \A k \in ClusterKeys, v \in ClusterValues :
        (Formed /\ crashes = 0 /\ SetReturnedNil(k, v) /\ Settled) =>
            \A n \in Nodes : Get(m[n], k) = v

\* C18: after the leader of the formed cluster of three was killed,
\* eventually (once the survivors have settled) one of them is Leader; the
\* Set begun on a survivor has returned nil; the map of each survivor is the
\* fold of all the commands committed, those committed before the failure
\* included; and the key of the Set that returned nil is read with its value
\* on both survivors.
C18_LeaderFailover ==
    (crashes = 1 /\ Settled) =>
        /\ \E n \in Nodes : opened[n] /\ raftState[n] = "Leader"
        /\ (call.op = "set" /\ opened[call.node]) =>
              (call.pc = "done" /\ call.res = "nil")
        /\ \A n \in Nodes :
              opened[n] => m[n] = LastWriterMap(CommittedCommands(Len(committed)))
        /\ \A k \in ClusterKeys, v \in ClusterValues :
              (SetReturnedNil(k, v) /\ opened[call.node]) =>
                  \A n \in Nodes : opened[n] => Get(m[n], k) = v

(***************************************************************************)
(* Claims settled under SpecJoin.                                          *)
(***************************************************************************)

\* The node that is joined to the first.
Joined == CHOOSE n \in Pair : n # Bootstrap

\* The map the committed commands give, all of them.
CommittedMap == LastWriterMap(CommittedCommands(Len(committed)))

\* The keys as the maps hold them: what fsm.Apply decodes from the record
\* json.Marshal wrote for a key.
StoredKeys == {DecodeString(EncodeString(k)) : k \in ClusterKeys}

\* C21: with the first node a single-node leader and the second opened with
\* enableSingle false, once Join(second) has returned nil on the first the
\* second is a peer of the first, by an AddPeer entry that is committed; the
\* second eventually lists the same peers, and every key committed on the
\* first with a value, before or after the join, is eventually read with
\* that value on the second.
C21_JoinAddsPeer ==
    /\ []((call.pc = "done" /\ call.op = "join" /\ call.res = "nil") =>
            /\ call.node = Bootstrap
            /\ Joined \in Peers(Bootstrap)
            /\ ~enableSingleArg[Joined]
            /\ \E i \in 1..Len(committed) :
                  committed[i].type = "addpeer" /\ Joined \in committed[i].peers)
    /\ (Joined \in Peers(Bootstrap)) ~> (peersFile[Joined] = peersFile[Bootstrap])
    /\ \A k \in StoredKeys, v \in ClusterValues :
          (Joined \in Peers(Bootstrap) /\ k \in DOMAIN CommittedMap /\ CommittedMap[k] = v)
              ~> (Get(m[Joined], k) = v /\ Get(m[Bootstrap], k) = v)

\* A key was committed on the first node, then the second was joined; the
\* cluster has settled and the second node reads the key.
C21_Witness ==
    /\ Settled
    /\ call.pc = "done" /\ call.op = "join" /\ call.res = "nil"
    /\ Joined \in Peers(Bootstrap)
    /\ \E i, j \in 1..Len(committed) :
          i < j /\ committed[i].type = "cmd" /\ committed[j].type = "addpeer"
    /\ m[Joined] # EmptyMap
    /\ m[Joined] = m[Bootstrap]

\* The step is a Get that follows a Set which returned nil.
GetAfterSet == call'.op = "get" /\ call'.n = call.n + 1

\* C29: a Get after a successful Set returns nil and the value the key has
\* in the fold of the committed commands the node it is called on has
\* applied; it differs from the value in the fold of all committed commands
\* only when that node has not applied all of them; on the node where the
\* Set returned a key that is valid UTF-8 is read with the value set.
C29_StaleReadIsAppliedPrefix ==
    [][GetAfterSet =>
          LET n == call'.node
              k == call'.key
              mine == LastWriterMap(CommittedCommands(lastApplied[n]))
          IN  /\ call'.res = "nil"
              /\ call'.value = IF k \in DOMAIN mine THEN mine[k] ELSE EmptyString
              /\ call'.value # Get(CommittedMap, k) => lastApplied[n] < Len(committed)
              /\ (n = call.node /\ k \in StoredKeys) => call'.value = call.value]_vars

\* The stale read: the Set of key k, begun after the second node had joined,
\* has returned nil on the leader, which has applied its entry; Get(k) on the
\* follower, which has not yet applied the entry, returned the value of
\* before, the empty string of an absent key.
C29_Witness ==
    /\ call.op = "get" /\ call.pc = "done" /\ call.res = "nil"
    /\ call.node = Joined
    /\ call.state = "Follower"
    /\ Joined \in Peers(Bootstrap)
    /\ raftState[Bootstrap] = "Leader"
    /\ call.key \in StoredKeys
    /\ call.value = EmptyString
    /\ \E j \in 1..Len(committed), i \in 1..Len(committed) :
          /\ j < i
          /\ committed[j].type = "addpeer" /\ Joined \in committed[j].peers
          /\ committed[i].type = "cmd"
          /\ UnmarshalCommand(committed[i].data).c = SetCommand(call.key, <<"a">>)
          /\ i <= lastApplied[Bootstrap]
          /\ lastApplied[Joined] < i
    /\ Get(m[Bootstrap], call.key) = <<"a">>
    /\ Get(m[Joined], call.key) = EmptyString

(***************************************************************************)
(* Claims settled under SpecMutex                                          *)
(***************************************************************************)
\* The step is a write to the shared map: the assignment or delete of
\* applySet / applyDelete, or Restore's f.m = o.
WritesMap == xfsm.pc \in {"applyLocked", "restoreDecoded"} /\ xfsm'.pc # xfsm.pc

\* A Get is between its Lock and its Unlock.
GetInProgress == xget.pc \in {"locked", "read"}

\* C25: every write to the shared map (applySet, applyDelete, Restore's
\* replacement of the map) is made by a goroutine that holds the store mutex,
\* so no write happens while a Get is between its Lock and its Unlock.
C25_WritesUnderMutex ==
    [][WritesMap => xmu = "fsm" /\ xmu' = "fsm" /\ ~GetInProgress]_vars

\* C26: Restore, from its decode to its assignment of the map, never runs
\* while a Get call is in progress on the node.
C26_RestoreNotWhileServing ==
    xfsm.pc = "restoreDecoded" => ~GetInProgress

\* C27: Snapshot holds the mutex while it clones and has released it when
\* the handle is returned; Persist neither takes nor needs the mutex, so
\* while a persist is in progress it can finish whoever holds the mutex, an
\* Apply or a Get can take the free mutex and go on; and the bytes written
\* are the encoding of the map as it was when it was cloned.
C27_CloneLockedPersistUnlocked ==
    /\ [](xfsm.pc \in {"snapLocked", "snapCloned"} => xmu = "fsm")
    /\ [][xsnap.pc # "held" /\ xsnap'.pc = "held" => xmu' = "none" /\ xfsm'.pc = "idle"]_vars
    /\ [][xsnap.pc = "persisting" /\ xsnap'.pc = "done" => UNCHANGED <<xmu, xm>>]_vars
    /\ [](xsnap.pc = "persisting" =>
            /\ ENABLED MxPersistEnd
            /\ xfsm.pc = "applyLocked" => ENABLED MxApplyWrite
            /\ xget.pc = "locked" => ENABLED MxGetRead
            /\ xmu = "none" /\ xops < MaxMutexOps =>
                 /\ xfsm.pc = "idle" => \A c \in MutexCommands : ENABLED MxApplyLock(c)
                 /\ xserving /\ xget.pc = "idle" => ENABLED MxGetLock(MutexKey))
    /\ [](xsnap.pc = "done" => xsnap.written = MarshalMap(xsnap.src))

\* A persist has finished during which a command was applied that changed
\* the map: the bytes are those of the map at clone time, not of the map now.
C27_Witness ==
    /\ xsnap.pc = "done"
    /\ xsnap.overlapped
    /\ xm # xsnap.src
    /\ xsnap.written = MarshalMap(xsnap.src)
    /\ xsnap.written # MarshalMap(xm)

(***************************************************************************)
(* Claims settled under SpecMain                                           *)
(***************************************************************************)
\* C32: a node whose process was started with -join naming a running node
\* is, once the cluster has settled (no Raft step and no return of a call is
\* left to take), a peer of that node, and reads every key with the value
\* the node it joined reads.
C32_JoinFlagJoins ==
    \A n \in Pair :
        (opened[n] /\ joinAddr[n] \in Pair /\ Settled) =>
            /\ n \in Peers(joinAddr[n])
            /\ \A k \in ClusterKeys : Get(m[n], k) = Get(m[joinAddr[n]], k)

(***************************************************************************)
(* Claims settled under SpecRestart                                        *)
(***************************************************************************)
\* Node n was stopped and has been started again.
Restarted(n) == stopped[n].valid /\ opened[n]

\* C33: once a node of the cluster of three that was stopped has been
\* started again and the cluster has settled (no Raft step and no return of
\* a call is left to take), the node lists the three as its peers, follows
\* or leads, has applied every committed entry, those committed while it was
\* down included, and its map is the map of the two other members.
C33_RestartConverges ==
    \A n \in Nodes :
        (Restarted(n) /\ Settled) =>
            /\ peersFile[n] = Nodes
            /\ raftState[n] \in {"Follower", "Leader"}
            /\ \E q \in Nodes : raftState[q] = "Leader"
            /\ lastApplied[n] = Len(committed)
            /\ m[n] = CommittedMap
            /\ \A q \in Nodes : m[q] = m[n]

\* The leader was stopped, the two others elected a leader and a Set on it
\* returned nil while the node was down (writes begin only while a node is
\* down, and the node is started when no call is in flight); the node,
\* started again, holds the key it had not seen.
C33_Witness ==
    \E n \in Nodes :
        /\ Restarted(n) /\ Settled
        /\ raftState[n] = "Follower"
        /\ \E i \in 1..Len(committed) :
              /\ i > stopped[n].at
              /\ committed[i].type = "cmd"
        /\ m[n] # stopped[n].m
        /\ \A q \in Nodes : m[q] = m[n]
        /\ call.op = "set" /\ call.pc = "done" /\ call.res = "nil" /\ call.node # n

\* ---------------------------------------------------------------------
\* Claims settled under SpecHttp.
\* ---------------------------------------------------------------------

\* The delete commands for the request's key that the serving node has
\* appended to its log since the request arrived.
DeletesAppended ==
    {i \in (req.len0 + 1)..LastIndex(req.node) :
        /\ EntryAt(req.node, i).type = "cmd"
        /\ EntryAt(req.node, i).data = MarshalCommand(DeleteCommand(req.key))}

\* C38: a DELETE request for a non-empty key served by the leader appends
\* exactly one delete command to the replicated log, and a write request
\* whose store call returned an error is answered with status 500 and has
\* changed no node's map.
C38_OneDeletePerRequest ==
    /\ [](req.pc = "done" /\ req.method = "DELETE" /\ req.status = 200
              => Cardinality(DeletesAppended) = 1)
    /\ [][(req.pc = "serving" /\ req'.pc = "done" /\ call.res # "nil")
              => req'.status = 500 /\ m = req.m0]_vars

====
